---- MODULE Spec2Model ----
(***************************************************************************)
(* State-machine model of the openclaw-statusbar runtime (index.ts,        *)
(* StatusbarRuntime) together with the parts of the transport              *)
(* (GlobalRateLimiter) and of the store that its scheduler reads.          *)
(*                                                                         *)
(* One Telegram chat is modelled; its threads (Keys) are the delivery      *)
(* targets, so all sessions share the conversation preferences (store key  *)
(* accountId::conversationId) and the circuit-breaker entry                *)
(* (accountId:chatId), and each has its own status-message reference and   *)
(* its own SessionRuntime.  Time is counted in units of 1000 ms.           *)
(* Lifecycle events are taken after target resolution has succeeded,       *)
(* except in SpecResolve, where they carry their session keys.             *)
(***************************************************************************)
EXTENDS Integers, Sequences, FiniteSets, TLC

\* ------------------------------------------------------------------ bounds
MaxTime       == 3      \* the clock stops advancing here
MaxTimeTwo    == 1      \* the same, in the two-session specification
MaxEvents     == 2      \* lifecycle events delivered in one behaviour
MaxCmds       == 1      \* slash commands handled in one behaviour
MaxInputs     == 2      \* events and commands together
MaxFails      == 1      \* delivery calls answered with an error
MaxRetryAfter == 1      \* largest retry_after of a 429 answer
MaxRuns       == 3      \* successful runs folded into one history
MaxSteps      == 250    \* largest step count resolveProgress is evaluated on
MaxPersists   == 4      \* persist() calls in one behaviour of the store
MaxLimiterCalls == 4    \* calls of the circuit breaker in one behaviour of it
MaxLimiterTime  == 5    \* the clock of the circuit breaker's behaviours stops here
MaxRouted       == 3    \* events of one chat delivered through its accounts
MaxEvictTime    == 2101 \* the clock of the cache-eviction behaviours stops here

\* ------------------------------------------------------- program constants
ThrottleMs          == 2      \* config.throttleMs     (2000 ms)
MinThrottleMs       == 1      \* config.minThrottleMs  (1000 ms)
LiveTickMs          == 1      \* config.liveTickMs     (1000 ms)
ToolThrottleFloorMs == 2      \* the literal 2000 of resolveThrottleMs
AutoHideOn          == 1      \* a positive config.autoHideSeconds
SESSION_STALE_MS    == 7200   \* 2 h
SESSION_TARGET_TTL_MS == 1800 \* 30 min
PRUNE_INTERVAL_MS   == 300    \* 5 min
MsPerUnit           == 1000   \* milliseconds in one unit of the clock
NewMessagePerRun    == TRUE   \* config.newMessagePerRun default
PROGRESS_MIN_PERCENT == 1
PROGRESS_MAX_PERCENT == 99
FALLBACK_STEPS_TOTAL == 4
ETA_MIN_ELAPSED_MS   == 3000
ETA_ACTIVE_FLOOR_MS  == 1000
MaxRetriesEdit      == 0      \* config.maxRetriesEdit default
MaxRetriesSend      == 4      \* config.maxRetriesSend default

Keys          == {"main", "topic"}          \* thread keys of the chat
Primary       == {"main"}                   \* the thread of the one-session runs
ACTIVE_PHASES == {"queued", "running", "tool"}
Phases        == {"idle", "queued", "running", "tool", "done", "error"}
ToolNames     == {"exec"}
Modes         == {"normal", "detailed"}

\* null values, one per type
NoTime  == -1          \* endedAtMs = null, renderTimer/hideTimer = null
NoRef   == 0           \* no stored StatusMessageRef (message ids start at 1)
NoName  == "none"      \* toolName / model / error = null
NoText  == << >>       \* lastRenderedText / lastRenderedControlsKey = null

Max(a, b) == IF a >= b THEN a ELSE b

VARIABLES
  threads,      \* the threads of the chat in use (fixed at construction)
  now,          \* Date.now()
  nextTickAt,   \* next firing time of the liveTicker interval
  autoHide,     \* config.autoHideSeconds (chosen at construction)
  sessions,     \* the sessions Map: thread key -> SessionRuntime
  prefs,        \* ConversationPrefs of the chat (without the message refs)
  statusMsg,    \* statusMessagesByThread: thread key -> message id or NoRef
  pausedUntil,  \* GlobalRateLimiter entry of (accountId, chatId); 0 = none
  flights,      \* flushSession invocations suspended at an await
  pending,      \* event/command handlers suspended at an await
  nextMsgId,    \* next message id Telegram hands out
  hist,         \* observation only: per session, what reached the channel
  obs,          \* observation only: chat-wide (rate-limit deadline, gate)
  nEvents, nCmds, nFails,
  sessionTargets, \* session key -> (target, seenAtMs) or NoEntry
  senderTargets,  \* sender id -> (target, seenAtMs) or NoEntry
  lastPruneMs,    \* when pruneSessionTargets ran last
  call,         \* one transport operation (editStatusMessage / sendStatusMessage) in detail
  progress,     \* the last resolveProgress evaluation: its input and its result
  persistQueue, \* StatusbarStore: the chain of persist() calls and their file writes
  limiter,      \* GlobalRateLimiter with several keys: its Map and the last call made
  throttle,     \* the loaded throttle configuration and the throttle applied per phase
  routing       \* one chat reached through several accounts: the cache and the Map's keys

vars == << threads, now, nextTickAt, autoHide, sessions, prefs, statusMsg, pausedUntil,
           flights, pending, nextMsgId, hist, obs, nEvents, nCmds, nFails,
           sessionTargets, senderTargets, lastPruneMs, call, progress, persistQueue,
           limiter, throttle, routing >>

\* the variables of the store's write queue, of the breaker on its own and of
\* the throttle configuration
aux == << persistQueue, limiter, throttle, routing >>

\* the variables of the runtime proper
runtime == << threads, now, nextTickAt, autoHide, sessions, prefs, statusMsg, pausedUntil,
              flights, pending, nextMsgId, hist, obs, nEvents, nCmds, nFails,
              sessionTargets, senderTargets, lastPruneMs >>

\* ------------------------------------------------------------- sessions

\* createSessionState; live = FALSE stands for "not in the sessions Map"
CreateSessionState(t) ==
  [ live |-> TRUE, phase |-> "idle", queuedCount |-> 0, currentRunSteps |-> 0,
    startedAtMs |-> t, endedAtMs |-> NoTime, toolName |-> NoName,
    model |-> NoName, usageInput |-> 0, usageOutput |-> 0,
    lastUsageRenderAtMs |-> 0, error |-> NoName,
    lastRenderedText |-> NoText, lastRenderedControlsKey |-> NoText,
    lastRenderedAtMs |-> 0, nextAllowedAtMs |-> 0,
    desiredRevision |-> 0, renderedRevision |-> 0,
    renderTimer |-> NoTime, isFlushing |-> FALSE, hideTimer |-> NoTime ]

NoSession == [ CreateSessionState(0) EXCEPT !.live = FALSE ]

HistInit ==
  [ delivered |-> NoText,      \* last (text, controlsKey) the channel accepted
    startAt |-> NoTime,        \* start of the last flush that reached the channel
    urgentSince |-> FALSE,     \* an urgent mark since then
    gapOk |-> TRUE,            \* every restart without one kept the throttle
    vanished |-> {},           \* message ids an edit was answered "not found" for
    awaitNew |-> FALSE,        \* a new run began and no call was issued for it yet
    perRunOk |-> TRUE,         \* every new run's first call was a send
    removed |-> FALSE,         \* cleanupSessions deleted a session of this key
    cancelled |-> FALSE ]      \* ... one that had a timer set

\* The mutable part of the runtime, passed through the handlers' code.
State ==
  [ ss |-> sessions, pr |-> prefs, sm |-> statusMsg, pu |-> pausedUntil,
    fl |-> flights, pd |-> pending, id |-> nextMsgId, hi |-> hist, ob |-> obs,
    tg |-> sessionTargets, sn |-> senderTargets, lp |-> lastPruneMs ]

Commit(st) ==
  /\ sessions' = st.ss
  /\ prefs' = st.pr
  /\ statusMsg' = st.sm
  /\ pausedUntil' = st.pu
  /\ flights' = st.fl
  /\ pending' = st.pd
  /\ nextMsgId' = st.id
  /\ hist' = st.hi
  /\ obs' = st.ob
  /\ sessionTargets' = st.tg
  /\ senderTargets' = st.sn
  /\ lastPruneMs' = st.lp

SetS(st, k, s) == [ st EXCEPT !.ss[k] = s ]

\* getOrCreateSession
GetOrCreateSession(st, k) ==
  IF st.ss[k].live THEN st ELSE SetS(st, k, CreateSessionState(now))

\* scheduleFlush
ScheduleFlush(st, k) ==
  LET s == st.ss[k] IN
    IF ~s.live \/ s.renderTimer # NoTime \/ s.isFlushing THEN st
    ELSE SetS(st, k, [ s EXCEPT !.renderTimer = now + Max(0, s.nextAllowedAtMs - now) ])

\* faulty variant of MarkDirty: the urgent flag is ignored
MarkDirty_IgnoresUrgent(st, k, urgent) ==
  LET s1 == [ st.ss[k] EXCEPT !.desiredRevision = @ + 1 ]
  IN ScheduleFlush(SetS(st, k, s1), k)

\* faulty variant of MarkDirty: an urgent mark leaves a pending timer in place
MarkDirty_KeepsTimer(st, k, urgent) ==
  LET s  == st.ss[k]
      s1 == [ s EXCEPT !.desiredRevision = @ + 1,
                       !.nextAllowedAtMs = IF urgent THEN 0 ELSE @ ]
      h  == [ st.hi[k] EXCEPT !.urgentSince = @ \/ urgent ]
  IN ScheduleFlush([ SetS(st, k, s1) EXCEPT !.hi[k] = h ], k)

\* markDirty
MarkDirty(st, k, urgent) ==
  LET s  == st.ss[k]
      s1 == [ s EXCEPT !.desiredRevision = @ + 1 ]
      s2 == IF urgent
              THEN [ s1 EXCEPT !.nextAllowedAtMs = 0, !.renderTimer = NoTime ]
              ELSE s1
      h  == [ st.hi[k] EXCEPT !.urgentSince = @ \/ urgent ]
  IN ScheduleFlush([ SetS(st, k, s2) EXCEPT !.hi[k] = h ], k)

\* resolveThrottleMs
ResolveThrottleMs(phase) ==
  CASE phase = "tool"    -> Max(MinThrottleMs, ToolThrottleFloorMs)
    [] phase = "running" -> ThrottleMs
    [] phase = "queued"  -> ThrottleMs * 2
    [] OTHER             -> ThrottleMs

\* the smallest max(phase throttle, minThrottleMs) over all phases
MinGapMs ==
  LET gaps == { Max(ResolveThrottleMs(ph), MinThrottleMs) : ph \in Phases }
  IN CHOOSE g \in gaps : \A h \in gaps : g <= h

\* scheduleAutoHide
ScheduleAutoHide(st, k) ==
  IF autoHide <= 0 THEN st
  ELSE SetS(st, k, [ st.ss[k] EXCEPT !.hideTimer = now + autoHide ])

\* ------------------------------------------------------------- rendering

\* getElapsedMs, in whole seconds as formatClockMs prints it
GetElapsed(s) ==
  Max(0, (IF s.endedAtMs = NoTime THEN now ELSE s.endedAtMs) - s.startedAtMs)

\* renderStatusText: the fields the text is built from, per mode and phase
RenderStatusText(s, p) ==
  CASE s.phase = "idle" ->
         << "idle", "-", "-", 0, 0, NoName, 0 >>
    [] s.phase = "queued" ->
         << "queued", p.mode, "-", 0, 0, NoName, 0 >>
    [] s.phase \in {"done", "error"} ->
         IF p.mode = "detailed"
           THEN << s.phase, p.mode, "-", GetElapsed(s), 0, s.model,
                   s.usageInput + s.usageOutput >>
           ELSE << s.phase, p.mode, "-", GetElapsed(s), 0, NoName, 0 >>
    [] OTHER ->
         << s.phase, p.mode, IF s.phase = "tool" THEN s.toolName ELSE "-",
            GetElapsed(s), s.currentRunSteps, NoName, 0 >>

\* renderStatusButtons followed by JSON.stringify(controls ?? null)
RenderControlsKey(s, p) ==
  IF ~p.buttonsEnabled THEN << "null" >>
  ELSE IF s.phase \in ACTIVE_PHASES THEN << "active", p.mode, p.pinMode >>
  ELSE IF s.phase \in {"done", "error"} THEN << "done", p.mode >>
  ELSE << "null" >>

\* ------------------------------------------------------ circuit breaker

\* faulty variant of OnRateLimit: the new pause replaces the existing one
OnRateLimit_Overwrites(pu, retryAfterSec) == now + Max(retryAfterSec, 1)

\* GlobalRateLimiter.onRateLimit: the pause is only ever extended
OnRateLimit(pu, retryAfterSec) ==
  LET until == now + Max(retryAfterSec, 1) IN
    IF until > pu THEN until ELSE pu

\* GlobalRateLimiter.canProceed (its result)
CanProceed(pu) == now >= pu

\* GlobalRateLimiter.canProceed (its effect: an expired entry is deleted)
AfterCanProceed(pu) == IF now >= pu THEN 0 ELSE pu

\* GlobalRateLimiter.remainingMs
RemainingMs(pu) == Max(0, pu - now)

\* the breaker with several (accountId, chatId) pairs
LimiterAccounts == { "default", "work" }
LimiterChats    == { << "1" >>, << "2" >> }

\* the key `${accountId}:${chatId}`, as its parts between the colons
LimiterKey(accountId, chatId) == << accountId >> \o chatId

LimiterKeys == { LimiterKey(a, c) : a \in LimiterAccounts, c \in LimiterChats }

\* retry_after values (seconds) handed to onRateLimit
PauseSeconds == { 0, 1, 3 }

\* new GlobalRateLimiter(): an empty Map (0 = no entry), no call made yet
NoLimiter ==
  [ pausedUntil |-> [ key \in LimiterKeys |-> 0 ], n |-> 0,
    last |-> [ op |-> "none", accountId |-> NoName, chatId |-> << >>,
               retryAfterSec |-> 0, result |-> TRUE ] ]

\* rateLimiter.onRateLimit(accountId, chatId, retryAfterSec)
LimiterOnRateLimit(accountId, chatId, retryAfterSec) ==
  /\ limiter.n < MaxLimiterCalls
  /\ LET key == LimiterKey(accountId, chatId) IN
       limiter' = [ limiter EXCEPT
                      !.pausedUntil[key] = OnRateLimit(@, retryAfterSec),
                      !.n = @ + 1,
                      !.last = [ op |-> "onRateLimit", accountId |-> accountId,
                                 chatId |-> chatId, retryAfterSec |-> retryAfterSec,
                                 result |-> TRUE ] ]
  /\ UNCHANGED << runtime, call, progress, persistQueue, throttle, routing >>

\* rateLimiter.canProceed(accountId, chatId)
LimiterCanProceed(accountId, chatId) ==
  /\ limiter.n < MaxLimiterCalls
  /\ LET key == LimiterKey(accountId, chatId) IN
       limiter' = [ limiter EXCEPT
                      !.pausedUntil[key] = AfterCanProceed(@),
                      !.n = @ + 1,
                      !.last = [ op |-> "canProceed", accountId |-> accountId,
                                 chatId |-> chatId, retryAfterSec |-> 0,
                                 result |-> CanProceed(limiter.pausedUntil[key]) ] ]
  /\ UNCHANGED << runtime, call, progress, persistQueue, throttle, routing >>

\* Date.now() moves on between two calls of the breaker
LimiterClock ==
  /\ now < MaxLimiterTime
  /\ now' = now + 1
  /\ UNCHANGED << threads, nextTickAt, autoHide, sessions, prefs, statusMsg, pausedUntil,
                  flights, pending, nextMsgId, hist, obs, nEvents, nCmds, nFails,
                  sessionTargets, senderTargets, lastPruneMs, call, progress, aux >>

\* ------------------------------------------------------ phase throttle

\* throttleMs / minThrottleMs of the raw plugin configuration: << >> is a
\* missing or non-numeric value, << n >> the number n
RawThrottles == { << >>, << 0 >>, << 250 >>, << 1000 >>, << 2000 >>, << 2500 >>,
                  << 4000 >>, << 10000 >>, << 20000 >> }

\* asInt of config.ts (Math.trunc leaves an integer as it is)
ConfigAsInt(value, fallback, min, max) ==
  IF value = << >> THEN fallback
  ELSE LET normalized == value[1] IN
         IF normalized < min THEN min
         ELSE IF normalized > max THEN max
         ELSE normalized

\* normalizePluginConfig: its two throttle fields, in milliseconds
NormalizePluginConfig(source) ==
  [ throttleMs    |-> ConfigAsInt(source.throttleMs, 4000, 250, 10000),
    minThrottleMs |-> ConfigAsInt(source.minThrottleMs, 2500, 250, 10000) ]

\* resolveThrottleMs under a configuration, in milliseconds
ResolveThrottleMsOf(config, phase) ==
  CASE phase = "tool"    -> Max(config.minThrottleMs, 2000)
    [] phase = "running" -> config.throttleMs
    [] phase = "queued"  -> config.throttleMs * 2
    [] OTHER             -> config.throttleMs

\* flushSession, lines 512-514: nextAllowedAtMs - lastRenderedAtMs
AppliedThrottleMs(config, phase) ==
  Max(ResolveThrottleMsOf(config, phase), config.minThrottleMs)

\* no configuration loaded yet, no flush made (0 = none)
NoThrottle ==
  [ loaded |-> FALSE,
    config |-> NormalizePluginConfig([ throttleMs |-> << >>, minThrottleMs |-> << >> ]),
    applied |-> [ ph \in Phases |-> 0 ] ]

\* the constructor: this.config = normalizePluginConfig(api.pluginConfig)
LoadConfig(throttleMs, minThrottleMs) ==
  /\ ~throttle.loaded
  /\ throttle' = [ throttle EXCEPT
                     !.loaded = TRUE,
                     !.config = NormalizePluginConfig([ throttleMs |-> throttleMs,
                                                        minThrottleMs |-> minThrottleMs ]) ]
  /\ UNCHANGED << runtime, call, progress, persistQueue, limiter, routing >>

\* a flush of a session in the given phase succeeds under the configuration
FlushThrottle(phase) ==
  /\ throttle.loaded
  /\ throttle.applied[phase] = 0
  /\ throttle' = [ throttle EXCEPT
                     !.applied[phase] = AppliedThrottleMs(throttle.config, phase) ]
  /\ UNCHANGED << runtime, call, progress, persistQueue, limiter, routing >>

\* ------------------------------------------------------- delivery calls

RemoveAt(seq, i) == [ j \in 1..(Len(seq) - 1) |-> IF j < i THEN seq[j] ELSE seq[j + 1] ]

NetStages == {"edit", "send", "pin"}

\* delivery calls of thread k that have been issued and not yet answered
Outstanding(fl, pd, k) ==
  Cardinality({ i \in 1..Len(fl) : fl[i].key = k /\ fl[i].stage \in NetStages })
  + Cardinality({ i \in 1..Len(pd) : pd[i].key = k /\ pd[i].stage \in {"pinning", "unpinning"} })

\* A call leaves for Telegram: note whether a rate-limit answer's retry
\* delay was still running (observation only).
IssueCall(st) == [ st EXCEPT !.ob.gateOk = @ /\ now >= st.ob.rlUntil ]

\* A call was answered 429 with retry_after d (observation only).
NoteRateLimit(st, d) == [ st EXCEPT !.ob.rlUntil = Max(@, now + d) ]

\* ----------------------------------------------------------- flushSession

\* faulty variant of FlushReturnsEarly: the isFlushing test is missing
FlushReturnsEarly_NoSingleFlight(s, p, pu) ==
  \/ ~s.live
  \/ ~p.enabled
  \/ s.desiredRevision <= s.renderedRevision
  \/ ~CanProceed(pu)

\* faulty variant of FlushReturnsEarly: the preferences are not looked at
FlushReturnsEarly_IgnoresEnabled(s, p, pu) ==
  \/ ~s.live
  \/ s.isFlushing
  \/ s.desiredRevision <= s.renderedRevision
  \/ ~CanProceed(pu)

\* flushSession, lines 423-435: the early returns before isFlushing is set
FlushReturnsEarly(s, p, pu) ==
  \/ ~s.live
  \/ s.isFlushing
  \/ ~p.enabled
  \/ s.desiredRevision <= s.renderedRevision
  \/ ~CanProceed(pu)

\* flushSession, lines 443-447: the render equals the session's render cache
IsNoOpRender(s, text, ckey) ==
  /\ text = s.lastRenderedText
  /\ ckey = s.lastRenderedControlsKey
  /\ s.renderedRevision # 0

\* flushSession, finally block
FlushFinally(st, k) ==
  LET s1 == [ st.ss[k] EXCEPT !.isFlushing = FALSE ]
      st1 == SetS(st, k, s1)
  IN IF s1.desiredRevision > s1.renderedRevision THEN ScheduleFlush(st1, k) ELSE st1

\* the breaker lookup of flushSession, line 432, with its side effect
FlushGate(st, k) ==
  IF st.ss[k].live /\ ~st.ss[k].isFlushing /\ st.pr.enabled
     /\ st.ss[k].desiredRevision > st.ss[k].renderedRevision
    THEN [ st EXCEPT !.pu = AfterCanProceed(@) ]
    ELSE st

\* flushSession up to its first await (or to its return)
FlushSession(st, k, owner) ==
  LET s == st.ss[k] IN
  IF FlushReturnsEarly(s, st.pr, st.pu) THEN FlushGate(st, k)
  ELSE
    LET st0  == FlushGate(st, k)
        text == RenderStatusText(s, st.pr)
        ckey == RenderControlsKey(s, st.pr)
    IN
    IF IsNoOpRender(s, text, ckey)
      THEN FlushFinally(
             SetS(st0, k, [ s EXCEPT !.renderedRevision = s.desiredRevision ]), k)
      ELSE
        LET ref == st.sm[k]
            f == [ key |-> k, stage |-> IF ref # NoRef THEN "edit" ELSE "send",
                   text |-> text, ckey |-> ckey, currentRef |-> ref,
                   pin |-> st.pr.pinMode, owner |-> owner,
                   rev |-> s.desiredRevision ]  \* observation only
            h == st.hi[k]
            h1 == [ h EXCEPT
                      !.gapOk = @ /\ ( \/ h.startAt = NoTime
                                       \/ h.urgentSince
                                       \/ now - h.startAt >= MinGapMs ),
                      !.startAt = now,
                      !.urgentSince = FALSE,
                      !.perRunOk = @ /\ ~(h.awaitNew /\ ref # NoRef),
                      !.awaitNew = FALSE ]
        IN IssueCall([ SetS(st0, k, [ s EXCEPT !.isFlushing = TRUE ])
                       EXCEPT !.fl = Append(@, f), !.hi[k] = h1 ])

\* /sbpin after its awaited flushSession: pin the stored message, if any
PinAfterFlush(st, k) ==
  LET i == CHOOSE j \in 1..Len(st.pd) :
             st.pd[j].kind = "sbpin" /\ st.pd[j].key = k /\ st.pd[j].stage = "awaitFlush"
  IN IF st.sm[k] # NoRef
       THEN IssueCall([ st EXCEPT !.pd[i].stage = "pinning" ])
       ELSE [ st EXCEPT !.pd = RemoveAt(@, i) ]

\* the promise of flushSession settles: its awaiting caller resumes
FlushSettled(st, f) ==
  IF f.owner = "sbpin" THEN PinAfterFlush(st, f.key) ELSE st

\* faulty variant of RenderedAfterFlush: the success path overshoots
RenderedAfterFlush_Overshoot(s) == s.desiredRevision + 1

\* flushSession, line 515: the value renderedRevision takes on success
RenderedAfterFlush(s) == s.desiredRevision

\* flushSession, lines 508-515, then finally
FlushSucceed(st, i) ==
  LET f == st.fl[i]
      s == st.ss[f.key]
      s1 == [ s EXCEPT !.lastRenderedText = f.text,
                       !.lastRenderedControlsKey = f.ckey,
                       !.lastRenderedAtMs = now,
                       !.nextAllowedAtMs =
                          now + Max(ResolveThrottleMs(s.phase), MinThrottleMs),
                       !.renderedRevision = RenderedAfterFlush(s) ]
  IN FlushSettled(FlushFinally([ SetS(st, f.key, s1) EXCEPT !.fl = RemoveAt(@, i) ], f.key), f)

\* faulty variant of FlushFail: the failed render is taken for delivered
FlushFail_MarksRendered(st, i) ==
  LET f == st.fl[i]
      s1 == [ st.ss[f.key] EXCEPT !.renderedRevision = @ + 1,
                                  !.lastRenderedText = f.text,
                                  !.lastRenderedControlsKey = f.ckey ]
  IN FlushSettled(FlushFinally([ SetS(st, f.key, s1) EXCEPT !.fl = RemoveAt(@, i) ], f.key), f)

\* flushSession, catch (line 516) then finally
FlushFail(st, i) ==
  LET f == st.fl[i] IN
    FlushSettled(FlushFinally([ st EXCEPT !.fl = RemoveAt(@, i) ], f.key), f)

\* the channel accepted the render of flight f (observation only)
NoteDelivered(st, f) ==
  [ st EXCEPT !.hi[f.key].delivered = << f.text, f.ckey >> ]

\* ----------------------------------------------- transport operations in detail

\* what one attempt (an SDK call or one fetch of callTelegram) is answered
Answers == {"ok", "notModified", "notFound", "badRequest", "rateLimit", "server", "network"}

\* TelegramApiError.isRateLimit
IsRateLimit(a) == a = "rateLimit"

\* callTelegram, line 248: a 5xx answer or an error without a code (network)
IsTransient(a) == a \in {"server", "network"}

\* no transport operation under way
NoCall ==
  [ op |-> "none", status |-> "idle", maxRetries |-> 0, attempt |-> 0,
    sdk |-> << >>, fetches |-> << >>, breaker |-> FALSE, sleepMs |-> 0 ]

\* faulty variant of RetriesExhausted: one retry too many
RetriesExhausted_OffByOne(attempt, maxRetries) == attempt > maxRetries

\* callTelegram, line 236
RetriesExhausted(attempt, maxRetries) == attempt >= maxRetries

\* callTelegram is entered: attempt = 0, the first fetch is awaited
CallTelegram(c, maxRetries) ==
  [ c EXCEPT !.status = "fetch", !.maxRetries = maxRetries, !.attempt = 0 ]

\* editStatusMessage: the SDK path if messageActions.handleAction exists,
\* the direct API with maxRetriesEdit otherwise
EditStatusMessage(hasSdk) ==
  /\ call.status = "idle"
  /\ call' = IF hasSdk THEN [ NoCall EXCEPT !.op = "edit", !.status = "sdk" ]
             ELSE CallTelegram([ NoCall EXCEPT !.op = "edit" ], MaxRetriesEdit)
  /\ UNCHANGED << runtime, progress, aux >>

\* sendStatusMessage: the SDK's sendMessageTelegram is tried first
SendStatusMessage ==
  /\ call.status = "idle"
  /\ call' = [ NoCall EXCEPT !.op = "send", !.status = "sdk" ]
  /\ UNCHANGED << runtime, progress, aux >>

\* the SDK call settles: edit lines 340-376, send lines 281-287
SdkAnswer(a) ==
  /\ call.status = "sdk"
  /\ LET c == [ call EXCEPT !.sdk = Append(@, a) ] IN
       call' = IF call.op = "edit"
                 THEN IF a \in {"ok", "notModified"} THEN [ c EXCEPT !.status = "returned" ]
                      ELSE [ c EXCEPT !.status = "thrown", !.breaker = IsRateLimit(a) ]
                 ELSE IF a = "ok" THEN [ c EXCEPT !.status = "returned" ]
                      ELSE CallTelegram(c, MaxRetriesSend)
  /\ UNCHANGED << runtime, progress, aux >>

\* parameters.retry_after of an error answer (seconds; Null: absent)
RetryAfters == { -1, 0, 1 }

\* resolveJitterMs: floor(random * 401) - 200, at its ends and in the middle
Jitters == { -200, 0, 200 }

\* callTelegram, line 199
BaseDelayMs == Max(MinThrottleMs * MsPerUnit, 500)

\* extractRetryAfterSeconds
ExtractRetryAfterSeconds(retryAfterSeconds, fallbackMs, attempt) ==
  IF retryAfterSeconds >= 0 THEN retryAfterSeconds
  ELSE (fallbackMs * Max(1, 2 ^ attempt) + 999) \div 1000

\* faulty variant of SleepMs: the lower limit of the wait is missing
SleepMs_NoFloor(a, attempt, retryAfterSeconds, jitter) ==
  IF IsRateLimit(a)
    THEN ExtractRetryAfterSeconds(retryAfterSeconds, BaseDelayMs, attempt) * 1000 + jitter
    ELSE BaseDelayMs * Max(1, 2 ^ attempt) + jitter

\* callTelegram, lines 241 and 249-252: the wait before the next attempt
SleepMs(a, attempt, retryAfterSeconds, jitter) ==
  IF IsRateLimit(a)
    THEN Max(250, ExtractRetryAfterSeconds(retryAfterSeconds, BaseDelayMs, attempt) * 1000
                  + jitter)
    ELSE Max(250, BaseDelayMs * Max(1, 2 ^ attempt) + jitter)

\* one fetch of callTelegram settles: lines 219-258, and for an edit the
\* catch of editStatusMessage, lines 399-419
FetchAnswer(a) ==
  /\ call.status = "fetch"
  /\ \E retryAfterSeconds \in RetryAfters, jitter \in Jitters :
       LET c == [ call EXCEPT !.fetches = Append(@, a) ] IN
         call' = IF a = "ok" THEN [ c EXCEPT !.status = "returned" ]
                 ELSE IF a = "notModified"
                   THEN [ c EXCEPT !.status = IF c.op = "edit" THEN "returned" ELSE "thrown" ]
                 ELSE IF RetriesExhausted(c.attempt, c.maxRetries)
                   THEN [ c EXCEPT !.status = "thrown",
                                   !.breaker = c.op = "edit" /\ IsRateLimit(a) ]
                 ELSE IF IsRateLimit(a) \/ IsTransient(a)
                   THEN [ c EXCEPT !.status = "sleep",
                                   !.sleepMs = SleepMs(a, c.attempt, retryAfterSeconds, jitter) ]
                 ELSE [ c EXCEPT !.status = "thrown" ]
  /\ UNCHANGED << runtime, progress, aux >>

\* the sleep before a retry is over: attempt += 1; continue
RetrySleepDone ==
  /\ call.status = "sleep"
  /\ call' = [ call EXCEPT !.attempt = @ + 1, !.status = "fetch", !.sleepMs = 0 ]
  /\ UNCHANGED << runtime, progress, aux >>

\* the operation has settled; the transport is ready for the next one
CallSettled ==
  /\ call.status \in {"returned", "thrown"}
  /\ call' = NoCall
  /\ UNCHANGED << runtime, progress, aux >>

\* ------------------------------------------------------- progress estimation

\* JavaScript numbers that are not integers are kept as exact fractions
\* << numerator, denominator >> with a positive denominator.
RECURSIVE Gcd(_, _)
Gcd(a, b) == IF b = 0 THEN a ELSE Gcd(b, a % b)

Abs(a) == IF a < 0 THEN -a ELSE a

Frac(n, d) == LET g == Gcd(Abs(n), d) IN << n \div g, d \div g >>

FracLeq(a, b) == a[1] * b[2] <= b[1] * a[2]
FracMax(a, b) == IF FracLeq(a, b) THEN b ELSE a
FracMin(a, b) == IF FracLeq(a, b) THEN a ELSE b
FracAdd(a, b) == Frac(a[1] * b[2] + b[1] * a[2], a[2] * b[2])
FracMul(a, b) == Frac(a[1] * b[1], a[2] * b[2])

\* Math.round: the nearest integer, halves upwards
Round(a) == (2 * a[1] + a[2]) \div (2 * a[2])

Min(a, b) == IF a <= b THEN a ELSE b

\* the result null of resolveProgress (percent and etaMs are never negative)
Null == -1

PROGRESS_STEP_WEIGHT == Frac(4, 10)
PROGRESS_TIME_WEIGHT == Frac(6, 10)
PROGRESS_MIN_RATIO   == Frac(1, 100)
PROGRESS_MAX_RATIO   == Frac(99, 100)

\* faulty variant of ClampPercent: the lower limit is missing
ClampPercent_NoFloor(x) == Min(PROGRESS_MAX_PERCENT, x)

\* resolveProgress, line 358: the percent is clamped to [1, 99]
ClampPercent(x) == Max(PROGRESS_MIN_PERCENT, Min(PROGRESS_MAX_PERCENT, x))

\* resolveProgress, lines 311-313: the step total the run is measured against
EstimatedTotal(rawStepsDone, p) ==
  LET historyTotal == IF p.historyRuns > 0 THEN Round(FracMax(Frac(1, 1), p.avgSteps))
                      ELSE 0
  IN Max(IF historyTotal # 0 THEN historyTotal ELSE FALLBACK_STEPS_TOTAL,
         rawStepsDone + 1)

\* resolveProgress, lines 316-323: the ratio the bar shows
PercentRatio(rawStepsDone, elapsedMs, p) ==
  LET stepRatio == Frac(rawStepsDone, EstimatedTotal(rawStepsDone, p)) IN
    IF p.avgDurationMs > 0
      THEN LET timeRatio == FracMin(PROGRESS_MAX_RATIO, Frac(elapsedMs, p.avgDurationMs))
           IN FracMax(stepRatio,
                      FracMin(PROGRESS_MAX_RATIO,
                              FracAdd(FracMul(stepRatio, PROGRESS_STEP_WEIGHT),
                                      FracMul(timeRatio, PROGRESS_TIME_WEIGHT))))
      ELSE FracMax(PROGRESS_MIN_RATIO, stepRatio)

\* resolveProgress, lines 326-349: the ETA and the prediction kept on the
\* session (_etaSteps, _predictedEndMs as its distance from now)
ResolveEta(rawStepsDone, elapsedMs, p, e) ==
  IF elapsedMs < ETA_MIN_ELAPSED_MS THEN [ etaMs |-> Null, eta |-> e ]
  ELSE
    LET estimatedTotal == EstimatedTotal(rawStepsDone, p)
        historyTotal   == IF p.historyRuns > 0
                            THEN Round(FracMax(Frac(1, 1), p.avgSteps)) ELSE 0
        stepsRemaining == Max(1, estimatedTotal - rawStepsDone)
        avgStepMs == IF rawStepsDone > 0 THEN Frac(elapsedMs, rawStepsDone)
                     ELSE IF p.avgDurationMs > 0
                       THEN Frac(p.avgDurationMs, Max(1, historyTotal))
                     ELSE Frac(10000, 1)
        fresh == Round(FracMul(Frac(stepsRemaining, 1), avgStepMs))
    IN IF ~e.has \/ e.etaSteps # rawStepsDone
         THEN [ etaMs |-> fresh,
                eta |-> [ has |-> TRUE, etaSteps |-> rawStepsDone, predictedIn |-> fresh ] ]
       ELSE IF e.predictedIn < ETA_ACTIVE_FLOOR_MS
         THEN [ etaMs |-> fresh, eta |-> [ e EXCEPT !.predictedIn = fresh ] ]
       ELSE [ etaMs |-> e.predictedIn, eta |-> e ]

NoEta == [ has |-> FALSE, etaSteps |-> 0, predictedIn |-> 0 ]

\* resolveProgress
ResolveProgress(x) ==
  IF x.phase \in {"done", "error"}
    THEN [ percent |-> 100, etaMs |-> 0, eta |-> NoEta ]
  ELSE IF x.prefs.progressMode = "strict"
    THEN [ percent |-> Null, etaMs |-> Null, eta |-> x.eta ]
  ELSE
    LET rawStepsDone == Max(0, x.currentRunSteps)
        r == ResolveEta(rawStepsDone, x.elapsedMs, x.prefs, x.eta)
    IN [ percent |-> ClampPercent(Round(FracMul(PercentRatio(rawStepsDone, x.elapsedMs, x.prefs),
                                                Frac(100, 1)))),
         etaMs |-> r.etaMs, eta |-> r.eta ]

\* the sessions and histories resolveProgress is evaluated on
ProgressInputs ==
  [ phase : Phases,
    currentRunSteps : {0, 1, 3, MaxSteps},
    elapsedMs : {0, 2000, 3000, 60000},
    prefs : [ progressMode : {"strict", "predictive"},
              historyRuns : {0, 3},
              avgSteps : {Frac(0, 1), Frac(5, 2), Frac(40, 1)},
              avgDurationMs : {0, 1000, 20000} ],
    eta : {NoEta} \cup [ has : {TRUE}, etaSteps : {0, 3}, predictedIn : {-500, 5000} ] ]

NoProgress == [ evaluated |-> FALSE ]

\* one evaluation of resolveProgress (by a render)
EvalResolveProgress ==
  /\ ~progress.evaluated
  /\ \E x \in ProgressInputs :
       progress' = [ evaluated |-> TRUE, in |-> x, out |-> ResolveProgress(x) ]
  /\ UNCHANGED << runtime, call, aux >>

\* prefs.mode as renderStatusText switches on it
Layouts == {"minimal", "normal", "detailed"}

\* formatCompactSeconds: the whole seconds the text shows
FormatCompactSeconds(ms) == Max(0, ms \div 1000)

\* renderMinimal / renderNormal / renderDetailed as far as the progress goes:
\* the percent and the ETA seconds the text carries (Null: not shown) and the
\* prediction the session holds afterwards
RenderProgressPart(x, mode) ==
  IF mode = "minimal" \/ x.phase \in {"idle", "queued"}
    THEN [ percent |-> Null, etaShown |-> Null, eta |-> x.eta ]
  ELSE
    LET p == ResolveProgress(x) IN
      IF x.phase \in {"done", "error"}
        THEN [ percent |-> IF mode = "normal" THEN p.percent ELSE Null,
               etaShown |-> Null, eta |-> p.eta ]
        ELSE [ percent |-> p.percent,
               etaShown |-> IF p.etaMs = Null THEN Null ELSE FormatCompactSeconds(p.etaMs),
               eta |-> p.eta ]

\* renderStatusText on a (session, preferences) snapshot, then
\* renderStatusButtons on the same pair (flushSession lines 452-454)
RenderSnapshot ==
  /\ ~progress.evaluated
  /\ \E x \in ProgressInputs, mode \in Layouts :
       LET r == RenderProgressPart(x, mode) IN
         progress' = [ evaluated |-> TRUE, in |-> x, mode |-> mode,
                       text |-> << r.percent, r.etaShown >>, after |-> r.eta ]
  /\ UNCHANGED << runtime, call, aux >>

\* ------------------------------------------------- the store's write queue

\* who calls persist(): a flush, a command handler, onMessageReceived, onAgentEnd
Triggers == { "flush", "command", "message_received", "agent_end" }

\* persistQueue = Promise.resolve(): no call yet
NoQueue == [ calls |-> << >>, started |-> << >>, logged |-> 0 ]

\* faulty variant of CanStartWrite: the write is not chained on the queue
CanStartWrite_Unchained(q, i) ==
  /\ i \in 1..Len(q.calls)
  /\ q.calls[i].status = "queued"

\* persist, line 224: the callback given to persistQueue.then runs once the
\* promise the queue held at the call (the one of call i - 1, or
\* Promise.resolve()) has settled
CanStartWrite(q, i) ==
  /\ i \in 1..Len(q.calls)
  /\ q.calls[i].status = "queued"
  /\ i > 1 => q.calls[i - 1].promise # "pending"

\* StatusbarStore.persist is called: the queue is extended by one promise,
\* which is also the promise persist() returns
Persist(trigger) ==
  /\ Len(persistQueue.calls) < MaxPersists
  /\ persistQueue' = [ persistQueue EXCEPT
                         !.calls = Append(@, [ trigger |-> trigger, status |-> "queued",
                                               promise |-> "pending" ]) ]
  /\ UNCHANGED << runtime, call, progress, limiter, throttle, routing >>

\* the then-callback of call i runs: writeStoreFile is called
WriteStart(i) ==
  /\ CanStartWrite(persistQueue, i)
  /\ persistQueue' = [ persistQueue EXCEPT !.calls[i].status = "writing",
                                           !.started = Append(@, i) ]
  /\ UNCHANGED << runtime, call, progress, limiter, throttle, routing >>

\* writeStoreFile of call i settles; a rejection is caught and logged, lines
\* 225-227, so the promise of the call is fulfilled either way
WriteSettles(i, ok) ==
  /\ i \in 1..Len(persistQueue.calls)
  /\ persistQueue.calls[i].status = "writing"
  /\ persistQueue' = [ persistQueue EXCEPT
                         !.calls[i].status = IF ok THEN "written" ELSE "failed",
                         !.calls[i].promise = "fulfilled",
                         !.logged = IF ok THEN @ ELSE @ + 1 ]
  /\ UNCHANGED << runtime, call, progress, limiter, throttle, routing >>

\* ------------------------------------------------------ target resolution
\* A string that is split on ":" is kept as the sequence of its parts; the
\* parts used here carry no white space, so trim() leaves them as they are.

Account == "default"      \* accountId of the chat (normalizeAccountId of none)
Chat    == << "1" >>      \* chatId of the chat
TopicId == 7              \* threadId of thread "topic"; thread "main" has none

NoTarget == [ accountId |-> NoName, conversationId |-> << >>, chatId |-> << >>,
              threadId |-> Null ]
NoEntry  == [ target |-> NoTarget, seenAtMs |-> NoTime ]

\* the session keys events are delivered with; << >> is the empty string
SessionKeys ==
  { << >>,
    << "cron", "job" >>,
    << "agent", "main", "slack", "group", "1" >>,
    << "agent", "main", "telegram", "group" >>,
    << "agent", "main", "telegram", "group", "" >>,
    << "agent", "main", "main" >>,
    << "agent", "default", "main" >>,
    << "agent", "main", "telegram", "group", "1" >>,
    << "agent", "main", "telegram", "group", "1", "topic", "7" >>,
    << "agent", "main", "telegram", "default", "dm", "1" >> }

Senders == { "u1" }

\* the TelegramTarget resolveTelegramTargetFromMessageReceived returns for a
\* message of thread k of the chat
TargetOf(k) ==
  [ accountId |-> Account, conversationId |-> << "telegram" >> \o Chat, chatId |-> Chat,
    threadId |-> IF k = "main" THEN Null ELSE TopicId ]

\* resolveRuntimeSessionKey, for the targets of the chat
RuntimeKey(target) == IF target.threadId = Null THEN "main" ELSE "topic"

\* the route.sessionKey the host's resolveAgentRoute gives a message of
\* thread k (agent "main", group peer)
RouteKey(k) ==
  IF k = "main" THEN << "agent", "main", "telegram", "group", "1" >>
  ELSE << "agent", "main", "telegram", "group", "1", "topic", "7" >>

\* normalizeAccountId
NormalizeAccountId(raw) == IF raw = "" THEN "default" ELSE raw

\* the regular expression -?\d+ on one part
IsDigits(part) == part \in { "1", "7" }

\* asInt on a part that IsDigits
AsInt(part) == IF part = "7" THEN 7 ELSE 1

\* parts.slice(i)
Slice(parts, i) == SubSeq(parts, i, Len(parts))

\* s.split(":" + word + ":")[0]
SplitHead(parts, word) ==
  LET at == { i \in 2..(Len(parts) - 1) : parts[i] = word } IN
    IF at = {} THEN parts
    ELSE SubSeq(parts, 1, (CHOOSE i \in at : \A j \in at : i <= j) - 1)

\* parseThreadIdFromReference: RE_TOPIC_SUFFIX, then RE_THREAD_SUFFIX
ParseThreadIdFromReference(parts) ==
  LET n == Len(parts)
      suffix(word) == n >= 3 /\ parts[n - 1] = word /\ IsDigits(parts[n])
  IN IF suffix("topic") \/ suffix("thread") THEN AsInt(parts[n]) ELSE Null

\* resolveTelegramTargetFromSessionKey
ResolveTelegramTargetFromSessionKey(parts) ==
  IF parts = << >> \/ Len(parts) < 4 \/ parts[1] # "agent" THEN NoTarget
  ELSE
    LET rest        == Slice(parts, 3)
        withAccount == Len(rest) >= 4 /\ rest[3] \in { "dm", "direct" }
        plain       == Len(rest) >= 3 /\ rest[2] \in { "dm", "direct", "group" }
    IN
    IF rest[1] # "telegram" \/ (~withAccount /\ ~plain) THEN NoTarget
    ELSE
      LET accountId == IF withAccount THEN NormalizeAccountId(rest[2]) ELSE "default"
          kind      == IF withAccount THEN rest[3] ELSE rest[2]
          peerId    == IF withAccount THEN Slice(rest, 4) ELSE Slice(rest, 3)
          rawChatId == IF kind = "group" THEN SplitHead(peerId, "topic") ELSE peerId
          normalizedChatId == SplitHead(rawChatId, "thread")
      IN IF peerId = << "" >> \/ normalizedChatId = << "" >> THEN NoTarget
         ELSE [ accountId |-> accountId,
                conversationId |-> << "telegram" >> \o normalizedChatId,
                chatId |-> normalizedChatId,
                threadId |-> ParseThreadIdFromReference(<< "telegram" >> \o peerId) ]

\* StatusbarStore.findMostRecentTargetForAccount: the store holds the
\* conversation of the chat and no other
FindMostRecentTargetForAccount(accountId) ==
  IF accountId = Account
    THEN [ accountId |-> Account, conversationId |-> << "telegram" >> \o Chat,
           chatId |-> Chat, threadId |-> Null ]
    ELSE NoTarget

\* trackSessionTarget
TrackSessionTarget(st, sessionKey, target) ==
  [ st EXCEPT !.tg[sessionKey] = [ target |-> target, seenAtMs |-> now ] ]

\* trackAgentMainAlias: RE_AGENT_ID, "main" if it does not match
TrackAgentMainAlias(st, sessionKey, target) ==
  LET agentId == IF Len(sessionKey) >= 3 /\ sessionKey[1] = "agent" /\ sessionKey[2] # ""
                   THEN sessionKey[2] ELSE "main"
  IN TrackSessionTarget(st, << "agent", agentId, "main" >>, target)

\* trackSenderTarget; NoName = no senderId in the metadata
TrackSenderTarget(st, senderId, target) ==
  IF senderId = NoName THEN st
  ELSE [ st EXCEPT !.sn[senderId] = [ target |-> target, seenAtMs |-> now ] ]

\* faulty variant of AlignAccount: the target parsed from the key is kept
AlignAccount_KeepsParsed(fromKey, tracked) == fromKey

\* resolveTargetForSession, lines 280-286: a target parsed from the key takes
\* the accountId and the conversationId of a tracked target of the same chat
\* and thread (any of them: the order of the Map's entries is not kept)
AlignAccount(fromKey, tracked) ==
  LET same == { k \in DOMAIN tracked :
                  /\ tracked[k] # NoEntry
                  /\ tracked[k].target.chatId = fromKey.chatId
                  /\ tracked[k].target.threadId = fromKey.threadId }
  IN IF same = {} THEN fromKey
     ELSE LET entry == tracked[CHOOSE k \in same : TRUE] IN
            [ fromKey EXCEPT !.accountId = entry.target.accountId,
                             !.conversationId = entry.target.conversationId ]

\* RE_AGENT_MAIN
IsAgentMain(sessionKey) ==
  Len(sessionKey) = 3 /\ sessionKey[1] = "agent" /\ sessionKey[2] # "" /\ sessionKey[3] = "main"

\* faulty variant of ResolveTargetForSession: a key that resolves to nothing
\* is tracked all the same
ResolveTargetForSession_TracksMiss(st, key) ==
  IF key = << >> THEN [ st |-> st, target |-> NoTarget ]
  ELSE IF st.tg[key] # NoEntry
    THEN [ st |-> [ st EXCEPT !.tg[key].seenAtMs = now ], target |-> st.tg[key].target ]
  ELSE
    LET fromKey   == ResolveTelegramTargetFromSessionKey(key)
        fromStore == IF IsAgentMain(key) THEN FindMostRecentTargetForAccount(key[2])
                     ELSE NoTarget
        target    == IF fromKey # NoTarget THEN AlignAccount(fromKey, st.tg) ELSE fromStore
    IN [ st |-> TrackSessionTarget(st, key, target), target |-> target ]

\* resolveTargetForSession: the target (NoTarget for null) and the caches
\* after the call
ResolveTargetForSession(st, key) ==
  IF key = << >> THEN [ st |-> st, target |-> NoTarget ]
  ELSE IF st.tg[key] # NoEntry
    THEN [ st |-> [ st EXCEPT !.tg[key].seenAtMs = now ], target |-> st.tg[key].target ]
  ELSE
    LET fromKey   == ResolveTelegramTargetFromSessionKey(key)
        fromStore == IF IsAgentMain(key) THEN FindMostRecentTargetForAccount(key[2])
                     ELSE NoTarget
    IN IF fromKey # NoTarget
         THEN LET target == AlignAccount(fromKey, st.tg)
              IN [ st |-> TrackSessionTarget(st, key, target), target |-> target ]
       ELSE IF fromStore # NoTarget
         THEN [ st |-> TrackSessionTarget(st, key, fromStore), target |-> fromStore ]
       ELSE [ st |-> st, target |-> NoTarget ]

\* pruneSessionTargets
PruneSessionTargets(st) ==
  LET keep(e) == IF e # NoEntry /\ now - e.seenAtMs > SESSION_TARGET_TTL_MS THEN NoEntry ELSE e
  IN [ st EXCEPT !.tg = [ k \in DOMAIN @ |-> keep(@[k]) ],
                 !.sn = [ k \in DOMAIN @ |-> keep(@[k]) ] ]

\* resolveTargetFromSender: the senderTargets Map holds the sender under the
\* one account of the chat, so the direct lookup and the search by suffix
\* find the same entry; a hit is refreshed
ResolveTargetFromSender(st, senderId) ==
  IF senderId = NoName \/ st.sn[senderId] = NoEntry
    THEN [ st |-> st, target |-> NoTarget ]
    ELSE [ st |-> [ st EXCEPT !.sn[senderId].seenAtMs = now ],
           target |-> st.sn[senderId].target ]

\* faulty variant of MaybePruneSessionTargets: every tick scans
MaybePruneSessionTargets_NoDebounce(st) ==
  PruneSessionTargets([ st EXCEPT !.lp = now ])

\* maybePruneSessionTargets
MaybePruneSessionTargets(st) ==
  IF now - st.lp < PRUNE_INTERVAL_MS THEN st
  ELSE PruneSessionTargets([ st EXCEPT !.lp = now ])

\* ------------------------------------------- one chat, several accounts
\* The events of one chat whose sources name different accounts; every
\* conversation is enabled (enabledByDefault), so each event that resolves to
\* a target reaches getOrCreateSession.

\* ctx.accountId of message_received after normalizeAccountId
AccountIds == { "default", "work" }

\* resolveTelegramTargetFromMessageReceived for a message of thread k that
\* comes in through the given account
TargetVia(accountId, k) == [ TargetOf(k) EXCEPT !.accountId = accountId ]

\* resolveRuntimeSessionKey: `${accountId}|${conversationId}|${threadId ?? "main"}`
ResolveRuntimeSessionKey(target) ==
  << target.accountId, target.conversationId, RuntimeKey(target) >>

\* empty sessionTargets, empty sessions Map, no event handled yet
NoRouting ==
  [ tg |-> [ key \in SessionKeys |-> NoEntry ],
    sessions |-> {},
    n |-> 0,
    via |-> {},         \* observation only: the accounts messages came in through
    last |-> [ op |-> "none", key |-> << >>, target |-> NoTarget ] ]

\* onMessageReceived of an enabled conversation, lines 530-545: the route key
\* and the agent's main alias are tracked, then getOrCreateSession
MessageReceivedVia(accountId, k) ==
  /\ routing.n < MaxRouted
  /\ LET target == TargetVia(accountId, k)
         st1 == TrackSessionTarget(routing, RouteKey(k), target)
         st2 == TrackAgentMainAlias(st1, RouteKey(k), target)
     IN routing' = [ st2 EXCEPT
                       !.sessions = @ \cup { ResolveRuntimeSessionKey(target) },
                       !.n = @ + 1,
                       !.via = @ \cup { accountId },
                       !.last = [ op |-> "message", key |-> RouteKey(k), target |-> target ] ]
  /\ UNCHANGED << runtime, call, progress, persistQueue, limiter, throttle >>

\* the session keys of the lifecycle events; the store has no conversation
\* written yet, so the key findMostRecentTargetForAccount would answer is
\* left out
RoutedKeys == { key \in SessionKeys : ~( IsAgentMain(key) /\ key[2] = Account ) }

\* a session-keyed lifecycle handler of an enabled conversation (lines
\* 575-584 of onBeforeAgentStart): resolveTargetForSession, then
\* getOrCreateSession unless no target was found
LifecycleEventFor(key) ==
  /\ routing.n < MaxRouted
  /\ LET r == ResolveTargetForSession(routing, key)
     IN routing' = [ r.st EXCEPT
                       !.sessions = IF r.target = NoTarget THEN @
                                    ELSE @ \cup { ResolveRuntimeSessionKey(r.target) },
                       !.n = @ + 1,
                       !.last = [ op |-> "lifecycle", key |-> key, target |-> r.target ] ]
  /\ UNCHANGED << runtime, call, progress, persistQueue, limiter, throttle >>

\* a handler logged "no target for session"; it did so with a session in
\* the Map and a key tracked (observation only)
Warn(st) ==
  [ st EXCEPT !.ob.warned = @ + 1,
              !.ob.warnedBusy = @ \/ ( /\ \E k \in Keys : st.ss[k].live
                                       /\ \E key \in DOMAIN st.tg : st.tg[key] # NoEntry ) ]

\* ------------------------------------------------------------------ Init

InitWith(T) ==
  /\ threads = T
  /\ now = 0
  /\ nextTickAt = LiveTickMs
  /\ autoHide \in {0, AutoHideOn}
  /\ sessions = [ k \in Keys |-> NoSession ]
  /\ prefs \in [ enabled : BOOLEAN, pinMode : {FALSE}, buttonsEnabled : {FALSE},
                 mode : {"normal"}, historyRuns : {0}, avgDurationMs : {0},
                 avgSteps : {Frac(0, 1)} ]
  /\ statusMsg = [ k \in Keys |-> NoRef ]
  /\ pausedUntil = 0
  /\ flights = << >>
  /\ pending = << >>
  /\ nextMsgId = 1
  /\ hist = [ k \in Keys |-> HistInit ]
  /\ obs = [ rlUntil |-> 0, gateOk |-> TRUE, runs |-> << >>, warned |-> 0,
              warnedBusy |-> FALSE, destroyed |-> FALSE ]
  /\ nEvents = 0
  /\ nCmds = 0
  /\ nFails = 0
  /\ sessionTargets = [ key \in SessionKeys |-> NoEntry ]
  /\ senderTargets = [ id \in Senders |-> NoEntry ]
  /\ lastPruneMs = 0 - PRUNE_INTERVAL_MS    \* 0 of the epoch: long before now = 0
  /\ call = NoCall
  /\ progress = NoProgress
  /\ persistQueue = NoQueue
  /\ limiter = NoLimiter
  /\ throttle = NoThrottle
  /\ routing = NoRouting

Init == InitWith(Primary)

InitTwo == InitWith(Keys)

\* the time the clock stops at
Horizon == IF threads = Keys THEN MaxTimeTwo ELSE MaxTime

Env == << threads, now, nextTickAt, autoHide, call, progress, aux >>

\* a handler or a flush suspended at an await holds a session that
\* cleanupSessions has deleted; the next event or command of the chat is
\* taken after it has completed.  After destroy() the host delivers no
\* event and no command any more.
Orphaned ==
  \E k \in Keys :
    /\ hist[k].removed
    /\ ~sessions[k].live
    /\ \/ \E i \in 1..Len(flights) : flights[i].key = k
       \/ \E i \in 1..Len(pending) : pending[i].key = k

Event == ~Orphaned /\ ~obs.destroyed /\ nEvents < MaxEvents /\ nEvents + nCmds < MaxInputs /\ nEvents' = nEvents + 1 /\ UNCHANGED << Env, nCmds, nFails >>
Internal == UNCHANGED << Env, nEvents, nCmds, nFails >>
Command == ~Orphaned /\ ~obs.destroyed /\ nCmds < MaxCmds /\ nEvents + nCmds < MaxInputs /\ nCmds' = nCmds + 1 /\ UNCHANGED << Env, nEvents, nFails >>
Failure == nFails < MaxFails /\ nFails' = nFails + 1 /\ UNCHANGED << Env, nEvents, nCmds >>

\* a handler suspended at an await
Suspend(st, kind, k, stage, flag) ==
  [ st EXCEPT !.pd = Append(@, [ kind |-> kind, key |-> k, stage |-> stage,
                                 flag |-> flag ]) ]

Suspended(i, kind, stage) ==
  i \in 1..Len(pending) /\ pending[i].kind = kind /\ pending[i].stage = stage

\* --------------------------------------------------------- lifecycle events

\* onMessageReceived, lines 553-555: the next render is a first render again
ResetRenderCache(s) ==
  [ s EXCEPT !.lastRenderedText = NoText, !.lastRenderedControlsKey = NoText,
             !.renderedRevision = 0 ]

\* onMessageReceived, lines 548-572 (after the optional persist)
MessageReceivedRest(st, k, hadActiveRun, shouldCreateNewMessage) ==
  LET s  == st.ss[k]
      s1 == IF hadActiveRun \/ ~shouldCreateNewMessage THEN s
            ELSE ResetRenderCache(s)
      s2 == IF hadActiveRun THEN s1
            ELSE [ s1 EXCEPT !.phase = "queued", !.startedAtMs = now,
                             !.endedAtMs = NoTime, !.currentRunSteps = 0,
                             !.toolName = NoName, !.error = NoName,
                             !.model = NoName, !.usageInput = 0,
                             !.usageOutput = 0, !.lastUsageRenderAtMs = 0 ]
      s3 == [ s2 EXCEPT !.queuedCount = Max(0, @) + 1 ]
  IN MarkDirty(SetS(st, k, s3), k, FALSE)

\* onMessageReceived from line 542 up to `await this.store.persist()` (or to
\* its end)
MessageReceivedOn(st0, k) ==
  IF ~st0.pr.enabled THEN st0
  ELSE LET st  == GetOrCreateSession(st0, k)
           had == st.ss[k].phase \in ACTIVE_PHASES
           new == NewMessagePerRun /\ ~st.pr.pinMode
       IN IF ~had /\ new
            THEN Suspend([ st EXCEPT !.sm[k] = NoRef, !.hi[k].awaitNew = TRUE ],
                         "msg", k, "persist", TRUE)
            ELSE MessageReceivedRest(st, k, had, FALSE)

\* onMessageReceived for a message of thread k that is not a command, with
\* the target resolved
MessageReceived(k) ==
  /\ Event
  /\ Commit(MessageReceivedOn(State, k))

\* onMessageReceived, whole: the message's session key, its agent's main
\* alias and its sender are tracked, then a command is left to its handler
OnMessageReceived(k, senderId, isCommand) ==
  /\ Event
  /\ LET target == TargetOf(k)
         st1 == TrackSessionTarget(State, RouteKey(k), target)
         st2 == TrackAgentMainAlias(st1, RouteKey(k), target)
         st3 == TrackSenderTarget(st2, senderId, target)
     IN Commit(IF isCommand THEN st3 ELSE MessageReceivedOn(st3, k))

\* onMessageReceived resumed after persist
MessageReceivedResume(i) ==
  /\ Suspended(i, "msg", "persist")
  /\ Internal
  /\ Commit(MessageReceivedRest([ State EXCEPT !.pd = RemoveAt(@, i) ],
                                pending[i].key, FALSE, TRUE))

\* onBeforeAgentStart from line 583
BeforeAgentStartOn(st0, k) ==
  IF ~st0.pr.enabled THEN st0
  ELSE LET st == GetOrCreateSession(st0, k)
           s  == st.ss[k]
           s1 == [ s EXCEPT !.queuedCount = Max(0, @ - 1), !.currentRunSteps = 0,
                            !.phase = "running", !.startedAtMs = now,
                            !.endedAtMs = NoTime, !.toolName = NoName,
                            !.error = NoName, !.model = NoName,
                            !.usageInput = 0, !.usageOutput = 0,
                            !.lastUsageRenderAtMs = 0 ]
       IN MarkDirty(SetS(st, k, s1), k, TRUE)

\* onBeforeAgentStart with the target resolved
BeforeAgentStart(k) ==
  /\ Event
  /\ Commit(BeforeAgentStartOn(State, k))

\* onBeforeAgentStart, whole
OnBeforeAgentStart(sessionKey) ==
  /\ Event
  /\ IF sessionKey = << >> THEN Commit(State)
     ELSE LET r == ResolveTargetForSession(State, sessionKey)
          IN IF r.target = NoTarget THEN Commit(Warn(r.st))
             ELSE Commit(BeforeAgentStartOn(r.st, RuntimeKey(r.target)))

\* onBeforeToolCall from line 614
BeforeToolCallOn(st0, k, tool) ==
  IF ~st0.pr.enabled THEN st0
  ELSE LET st == GetOrCreateSession(st0, k)
           s1 == [ st.ss[k] EXCEPT !.currentRunSteps = @ + 1, !.phase = "tool",
                                   !.toolName = tool ]
       IN MarkDirty(SetS(st, k, s1), k, TRUE)

\* onBeforeToolCall with the target resolved
BeforeToolCall(k, tool) ==
  /\ Event
  /\ Commit(BeforeToolCallOn(State, k, tool))

\* onBeforeToolCall, whole
OnBeforeToolCall(sessionKey, tool) ==
  /\ Event
  /\ IF sessionKey = << >> THEN Commit(State)
     ELSE LET r == ResolveTargetForSession(State, sessionKey)
          IN IF r.target = NoTarget THEN Commit(Warn(r.st))
             ELSE Commit(BeforeToolCallOn(r.st, RuntimeKey(r.target), tool))

\* onAfterToolCall from line 635
AfterToolCallOn(st0, k) ==
  IF ~st0.pr.enabled THEN st0
  ELSE LET st == GetOrCreateSession(st0, k)
           s1 == [ st.ss[k] EXCEPT !.phase = "running", !.toolName = NoName ]
       IN MarkDirty(SetS(st, k, s1), k, TRUE)

\* onAfterToolCall with the target resolved
AfterToolCall(k) ==
  /\ Event
  /\ Commit(AfterToolCallOn(State, k))

\* onAfterToolCall, whole
OnAfterToolCall(sessionKey) ==
  /\ Event
  /\ IF sessionKey = << >> THEN Commit(State)
     ELSE LET r == ResolveTargetForSession(State, sessionKey)
          IN IF r.target = NoTarget THEN Commit(Warn(r.st))
             ELSE Commit(AfterToolCallOn(r.st, RuntimeKey(r.target)))

\* onLlmOutput from line 655
LlmOutputOn(st0, k, m, tokens) ==
  IF ~st0.pr.enabled THEN st0
  ELSE LET st == GetOrCreateSession(st0, k)
           s  == st.ss[k]
           isFirstModel == s.model = NoName
           s1 == [ s EXCEPT !.model = m, !.usageInput = @ + tokens,
                            !.usageOutput = @ + tokens ]
           usageIntervalMs == Max(MinThrottleMs, LiveTickMs)
       IN IF isFirstModel THEN MarkDirty(SetS(st, k, s1), k, TRUE)
          ELSE IF st.pr.mode = "detailed" /\ now - s.lastUsageRenderAtMs >= usageIntervalMs
            THEN MarkDirty(SetS(st, k, [ s1 EXCEPT !.lastUsageRenderAtMs = now ]), k, FALSE)
          ELSE SetS(st, k, s1)

\* onLlmOutput with the target resolved
LlmOutput(k, m, tokens) ==
  /\ Event
  /\ Commit(LlmOutputOn(State, k, m, tokens))

\* onLlmOutput, whole
OnLlmOutput(sessionKey, m, tokens) ==
  /\ Event
  /\ IF sessionKey = << >> THEN Commit(State)
     ELSE LET r == ResolveTargetForSession(State, sessionKey)
          IN IF r.target = NoTarget THEN Commit(Warn(r.st))
             ELSE Commit(LlmOutputOn(r.st, RuntimeKey(r.target), m, tokens))

\* faulty variant of RecordRun: the new run weighs as much as all earlier ones
RecordRun_Unweighted(p, elapsedMs, currentRunSteps) ==
  LET durationMs     == Max(1000, elapsedMs)
      completedSteps == Max(1, currentRunSteps)
      n              == Max(0, p.historyRuns)
  IN [ p EXCEPT
         !.historyRuns = n + 1,
         !.avgDurationMs = IF n = 0 THEN durationMs
                           ELSE Round(Frac(p.avgDurationMs + durationMs, 2)),
         !.avgSteps = IF n = 0 THEN Frac(completedSteps, 1)
                      ELSE FracMul(FracAdd(p.avgSteps, Frac(completedSteps, 1)), Frac(1, 2)) ]

\* onAgentEnd, lines 713-733: a successful run is folded into the history
RecordRun(p, elapsedMs, currentRunSteps) ==
  LET durationMs     == Max(1000, elapsedMs)
      completedSteps == Max(1, currentRunSteps)
      n              == Max(0, p.historyRuns)
      nextRuns       == n + 1
  IN [ p EXCEPT
         !.historyRuns = nextRuns,
         !.avgDurationMs = IF n = 0 THEN durationMs
                           ELSE Round(Frac(p.avgDurationMs * n + durationMs, nextRuns)),
         !.avgSteps = IF n = 0 THEN Frac(completedSteps, 1)
                      ELSE FracMul(FracAdd(FracMul(p.avgSteps, Frac(n, 1)),
                                           Frac(completedSteps, 1)),
                                   Frac(1, nextRuns)) ]

\* a successful run was reported with this elapsed time and step count
\* (observation only)
NoteRun(st, elapsedMs, currentRunSteps) ==
  [ st EXCEPT !.ob.runs = Append(@, << elapsedMs, currentRunSteps >>) ]

\* onAgentEnd, lines 737-739
AgentEndRest(st, k) ==
  IF st.ss[k].queuedCount <= 0 THEN ScheduleAutoHide(st, k) ELSE st

\* faulty variant of AgentEndOn: a failed run is folded into the history too
AgentEndOn_RecordsFailure(st0, k, success, err, durationMs) ==
  IF ~st0.pr.enabled THEN st0
  ELSE LET st == GetOrCreateSession(st0, k)
           s  == st.ss[k]
           s1 == [ s EXCEPT !.startedAtMs = IF durationMs > 0 THEN now - durationMs ELSE @,
                            !.endedAtMs = now,
                            !.phase = IF success THEN "done" ELSE "error",
                            !.toolName = NoName, !.error = err ]
           st1 == MarkDirty(SetS(st, k, s1), k, TRUE)
           elapsedMs == (s1.endedAtMs - s1.startedAtMs) * MsPerUnit
           st2 == NoteRun([ st1 EXCEPT !.pr = RecordRun(@, elapsedMs, s.currentRunSteps) ],
                          elapsedMs, s.currentRunSteps)
       IN IF success
            THEN Suspend(st2, "end", k, "persist", TRUE)
            ELSE AgentEndRest(st2, k)

\* onAgentEnd from line 692 up to `await this.store.persist()` (or to its
\* end)
AgentEndOn(st0, k, success, err, durationMs) ==
  IF ~st0.pr.enabled THEN st0
  ELSE LET st == GetOrCreateSession(st0, k)
           s  == st.ss[k]
           s1 == [ s EXCEPT !.startedAtMs = IF durationMs > 0 THEN now - durationMs ELSE @,
                            !.endedAtMs = now,
                            !.phase = IF success THEN "done" ELSE "error",
                            !.toolName = NoName, !.error = err ]
           st1 == MarkDirty(SetS(st, k, s1), k, TRUE)
           elapsedMs == (s1.endedAtMs - s1.startedAtMs) * MsPerUnit
           st2 == NoteRun([ st1 EXCEPT !.pr = RecordRun(@, elapsedMs, s.currentRunSteps) ],
                          elapsedMs, s.currentRunSteps)
       IN IF success
            THEN Suspend(st2, "end", k, "persist", TRUE)
            ELSE AgentEndRest(st1, k)

\* onAgentEnd with the target resolved
AgentEnd(k, success, err, durationMs) ==
  /\ Event
  /\ Commit(AgentEndOn(State, k, success, err, durationMs))

\* onAgentEnd, whole
OnAgentEnd(sessionKey, success, err, durationMs) ==
  /\ Event
  /\ IF sessionKey = << >> THEN Commit(State)
     ELSE LET r == ResolveTargetForSession(State, sessionKey)
          IN IF r.target = NoTarget THEN Commit(Warn(r.st))
             ELSE Commit(AgentEndOn(r.st, RuntimeKey(r.target), success, err, durationMs))

\* onAgentEnd resumed after persist
AgentEndResume(i) ==
  /\ Suspended(i, "end", "persist")
  /\ Internal
  /\ Commit(AgentEndRest([ State EXCEPT !.pd = RemoveAt(@, i) ], pending[i].key))

\* ------------------------------------------------------------------ timers

\* the renderTimer callback set by scheduleFlush
RenderTimerFire(k) ==
  /\ sessions[k].live
  /\ sessions[k].renderTimer # NoTime
  /\ sessions[k].renderTimer <= now
  /\ Internal
  /\ Commit(FlushSession(SetS(State, k, [ sessions[k] EXCEPT !.renderTimer = NoTime ]),
                         k, "timer"))

\* the hideTimer callback set by scheduleAutoHide; it returns at once if
\* the Map has no session of the key any more
HideTimerFire(k) ==
  /\ sessions[k].hideTimer # NoTime
  /\ sessions[k].hideTimer <= now
  /\ Internal
  /\ IF ~sessions[k].live
       THEN Commit(SetS(State, k, [ sessions[k] EXCEPT !.hideTimer = NoTime ]))
       ELSE LET s1 == [ sessions[k] EXCEPT !.hideTimer = NoTime, !.phase = "idle",
                                          !.toolName = NoName, !.error = NoName,
                                          !.currentRunSteps = 0 ]
            IN Commit(MarkDirty(SetS(State, k, s1), k, FALSE))

\* onLiveTick: which sessions the tick marks dirty
TickMarks(s, p) ==
  /\ s.live
  /\ s.phase \in ACTIVE_PHASES
  /\ now - s.lastRenderedAtMs >= Max(LiveTickMs, MinThrottleMs)
  /\ p.enabled

\* faulty variant of IsStale: the phase is not looked at
IsStale_IgnoresPhase(s) ==
  /\ s.live
  /\ s.endedAtMs # NoTime
  /\ now - s.endedAtMs > SESSION_STALE_MS

\* cleanupSessions: which sessions the tick removes
IsStale(s) ==
  /\ s.live
  /\ s.phase \notin ACTIVE_PHASES
  /\ s.endedAtMs # NoTime
  /\ now - s.endedAtMs > SESSION_STALE_MS

\* cleanupSessions, lines 197-199: both timers are cleared and the session
\* leaves the Map (handlers suspended at an await still hold the object)
RemoveSession(s) ==
  [ s EXCEPT !.live = FALSE, !.renderTimer = NoTime, !.hideTimer = NoTime ]

\* cleanupSessions
CleanupSessions(st) ==
  [ st EXCEPT
      !.ss = [ k \in Keys |-> IF IsStale(st.ss[k]) THEN RemoveSession(st.ss[k])
                              ELSE st.ss[k] ],
      !.hi = [ k \in Keys |->
                 IF IsStale(st.ss[k])
                   THEN [ st.hi[k] EXCEPT
                            !.removed = TRUE,
                            !.cancelled = @ \/ st.ss[k].renderTimer # NoTime
                                            \/ st.ss[k].hideTimer # NoTime ]
                   ELSE st.hi[k] ] ]

\* onLiveTick (the liveTicker interval callback)
OnLiveTick ==
  /\ nextTickAt # NoTime
  /\ nextTickAt <= now
  /\ nextTickAt' = nextTickAt + LiveTickMs
  /\ UNCHANGED << threads, now, autoHide, nEvents, nCmds, nFails, call, progress, aux >>
  /\ LET marked == [ k \in Keys |->
                       IF TickMarks(sessions[k], prefs) THEN MarkDirty(State, k, FALSE)
                       ELSE State ]
         st1 == [ State EXCEPT !.ss = [ k \in Keys |-> marked[k].ss[k] ],
                               !.hi = [ k \in Keys |-> marked[k].hi[k] ] ]
     IN Commit(MaybePruneSessionTargets(CleanupSessions(st1)))

\* the clock; timers and the ticker fire in the unit they are due, and a
\* store.persist() (a local file write) completes within the unit
AdvanceTime ==
  /\ now < Horizon
  /\ nextTickAt = NoTime \/ nextTickAt > now
  /\ \A k \in Keys :
       /\ ~(sessions[k].renderTimer # NoTime /\ sessions[k].renderTimer <= now)
       /\ ~(sessions[k].hideTimer # NoTime /\ sessions[k].hideTimer <= now)
  /\ \A i \in 1..Len(pending) : pending[i].stage # "persist"
  /\ \A i \in 1..Len(flights) : flights[i].stage \in NetStages
  /\ now' = now + 1
  /\ UNCHANGED << threads, nextTickAt, autoHide, sessions, prefs, statusMsg, pausedUntil,
                  flights, pending, nextMsgId, hist, obs, nEvents, nCmds, nFails,
                  sessionTargets, senderTargets, lastPruneMs, call, progress, aux >>

\* destroy: the ticker and the timers of the sessions in the Map are
\* cleared and the Map is emptied; handlers and flushes suspended at an
\* await keep their session object and go on when their await settles
Destroy ==
  /\ ~obs.destroyed
  /\ nextTickAt' = NoTime
  /\ UNCHANGED << threads, now, autoHide, nEvents, nCmds, nFails, call, progress, aux >>
  /\ Commit([ State EXCEPT
                !.ss = [ k \in Keys |-> IF @[k].live THEN RemoveSession(@[k]) ELSE @[k] ],
                !.ob.destroyed = TRUE ])

\* endedAtMs of the sessions in the Map that have one
EndedAt ==
  { sessions[k].endedAtMs : k \in { j \in Keys : sessions[j].live /\ sessions[j].endedAtMs # NoTime } }

\* A long idle stretch: nothing is scheduled or awaited and no enabled run is
\* active, so every tick of the liveTicker in between marks nothing and
\* removes nothing.  The clock stops where the staleness window of the
\* session that ended first closes, or one unit later, with the tick due.
Sleep ==
  /\ now <= Horizon
  /\ flights = << >>
  /\ pending = << >>
  /\ \A k \in Keys :
       /\ sessions[k].renderTimer = NoTime
       /\ sessions[k].hideTimer = NoTime
       /\ ~(sessions[k].live /\ sessions[k].phase \in ACTIVE_PHASES /\ prefs.enabled)
  /\ EndedAt # {}
  /\ LET first == CHOOSE e \in EndedAt : \A f \in EndedAt : e <= f
     IN \E t \in { first + SESSION_STALE_MS, first + SESSION_STALE_MS + 1 } :
          /\ now' = t
          /\ nextTickAt' = t
  /\ UNCHANGED << threads, autoHide, sessions, prefs, statusMsg, pausedUntil,
                  flights, pending, nextMsgId, hist, obs, nEvents, nCmds, nFails,
                  sessionTargets, senderTargets, lastPruneMs, call, progress, aux >>

\* ------------------------------------------------- answers to delivery calls

InStage(i, stage) == i \in 1..Len(flights) /\ flights[i].stage = stage

\* editStatusMessage resolves (also on "message is not modified")
EditOk(i) ==
  /\ InStage(i, "edit")
  /\ Internal
  /\ Commit(FlushSucceed(NoteDelivered(State, flights[i]), i))

\* faulty variant of EditNotFound: the stored reference is kept and the
\* flush fails like on any other error
EditNotFound_KeepsRef(i) ==
  /\ InStage(i, "edit")
  /\ Failure
  /\ Commit(FlushFail([ State EXCEPT
                          !.hi[flights[i].key].vanished = @ \cup {flights[i].currentRef} ], i))

\* editStatusMessage throws "message to edit not found": lines 464-467
EditNotFound(i) ==
  /\ InStage(i, "edit")
  /\ Failure
  /\ Commit([ State EXCEPT !.sm[flights[i].key] = NoRef, !.fl[i].stage = "persistNF",
                           !.hi[flights[i].key].vanished = @ \cup {flights[i].currentRef} ])

\* editStatusMessage throws a 429: transport lines 405-418, index lines 468-476
EditRateLimited(i, d) ==
  /\ InStage(i, "edit")
  /\ Failure
  /\ LET k   == flights[i].key
         pu1 == OnRateLimit(pausedUntil, d)
         s1  == [ sessions[k] EXCEPT
                    !.nextAllowedAtMs = now + Max(RemainingMs(pu1), ThrottleMs) ]
     IN Commit(FlushFail(NoteRateLimit([ SetS(State, k, s1) EXCEPT !.pu = pu1 ], d), i))

\* editStatusMessage throws any other error
EditFailed(i) ==
  /\ InStage(i, "edit")
  /\ Failure
  /\ Commit(FlushFail(State, i))

\* persist after the reference was cleared; then sendStatusMessage is called
PersistClearedDone(i) ==
  /\ InStage(i, "persistNF")
  /\ Internal
  /\ Commit(IssueCall([ State EXCEPT !.fl[i].stage = "send" ]))

\* sendStatusMessage resolves: lines 491-498
SendOk(i) ==
  /\ InStage(i, "send")
  /\ Internal
  /\ Commit([ NoteDelivered(State, flights[i]) EXCEPT
                !.sm[flights[i].key] = nextMsgId,
                !.id = @ + 1,
                !.fl[i].stage = "persistRef" ])

\* sendStatusMessage throws (after its retries); a 429 carries retry_after d
SendFailed(i, d) ==
  /\ InStage(i, "send")
  /\ Failure
  /\ Commit(FlushFail(IF d > 0 THEN NoteRateLimit(State, d) ELSE State, i))

\* persist after the new reference was stored: lines 499-506
PersistRefDone(i) ==
  /\ InStage(i, "persistRef")
  /\ Internal
  /\ IF flights[i].pin
       THEN Commit(IssueCall([ State EXCEPT !.fl[i].stage = "pin" ]))
       ELSE Commit(FlushSucceed(State, i))

\* pinStatusMessage of the flush settles; an error is logged and dropped
PinSettled(i, ok, d) ==
  /\ InStage(i, "pin")
  /\ IF ok THEN Internal ELSE Failure
  /\ Commit(FlushSucceed(IF ~ok /\ d > 0 THEN NoteRateLimit(State, d) ELSE State, i))

\* ---------------------------------------------------------- slash commands

\* faulty variant of ResetToIdle: the command also zeroes renderedRevision
ResetToIdle_ZeroRendered(st, k) ==
  LET st1 == GetOrCreateSession(st, k)
      s1  == [ st1.ss[k] EXCEPT !.phase = "idle", !.queuedCount = 0,
                                !.currentRunSteps = 0, !.startedAtMs = now,
                                !.endedAtMs = now, !.toolName = NoName,
                                !.error = NoName, !.renderedRevision = 0 ]
  IN FlushSession(MarkDirty(SetS(st1, k, s1), k, FALSE), k, "cmd")

\* handleEnableCommand / handleResetCommand: the session is put back to idle
ResetToIdle(st, k) ==
  LET st1 == GetOrCreateSession(st, k)
      s1  == [ st1.ss[k] EXCEPT !.phase = "idle", !.queuedCount = 0,
                                !.currentRunSteps = 0, !.startedAtMs = now,
                                !.endedAtMs = now, !.toolName = NoName,
                                !.error = NoName ]
  IN FlushSession(MarkDirty(SetS(st1, k, s1), k, FALSE), k, "cmd")

\* handleEnableCommand up to `await this.store.persist()`
HandleEnableCommand(k) ==
  /\ Command
  /\ Commit(Suspend([ State EXCEPT !.pr.enabled = TRUE, !.sm[k] = NoRef ],
                    "sbon", k, "persist", TRUE))

\* handleEnableCommand resumed: lines 761-770
HandleEnableResume(i) ==
  /\ Suspended(i, "sbon", "persist")
  /\ Internal
  /\ Commit(ResetToIdle([ State EXCEPT !.pd = RemoveAt(@, i) ], pending[i].key))

\* handleDisableCommand
HandleDisableCommand(k) ==
  /\ Command
  /\ Commit([ State EXCEPT !.pr.enabled = FALSE ])

\* handleModeCommand up to `await this.store.persist()`; NoName = no valid argument
HandleModeCommand(k, nextMode) ==
  /\ Command
  /\ IF nextMode = NoName THEN Commit(State)
     ELSE Commit(Suspend([ State EXCEPT !.pr.mode = nextMode, !.pr.enabled = TRUE ],
                         "sbmode", k, "persist", TRUE))

\* handleModeCommand resumed: lines 815-823
HandleModeResume(i) ==
  /\ Suspended(i, "sbmode", "persist")
  /\ Internal
  /\ LET k  == pending[i].key
         st == [ State EXCEPT !.pd = RemoveAt(@, i) ]
     IN Commit(IF st.ss[k].live THEN MarkDirty(st, k, FALSE) ELSE st)

\* handleStatusCommand
HandleStatusCommand(k) ==
  /\ Command
  /\ Commit(GetOrCreateSession(State, k))

\* handleResetCommand up to `await this.store.persist()`
HandleResetCommand(k) ==
  /\ Command
  /\ Commit(Suspend([ State EXCEPT !.sm[k] = NoRef ], "sbreset", k, "persist",
                    prefs.enabled))

\* handleResetCommand resumed: lines 881-892
HandleResetResume(i) ==
  /\ Suspended(i, "sbreset", "persist")
  /\ Internal
  /\ LET st == [ State EXCEPT !.pd = RemoveAt(@, i) ]
     IN Commit(IF pending[i].flag THEN ResetToIdle(st, pending[i].key) ELSE st)

\* handlePinCommand up to `await this.store.persist()`
HandlePinCommand(k) ==
  /\ Command
  /\ Commit(Suspend([ State EXCEPT !.pr.enabled = TRUE, !.pr.pinMode = TRUE ],
                    "sbpin", k, "persist", TRUE))

\* handlePinCommand resumed: lines 912-923
HandlePinResume(i) ==
  /\ Suspended(i, "sbpin", "persist")
  /\ Internal
  /\ LET k   == pending[i].key
         st1 == MarkDirty(GetOrCreateSession([ State EXCEPT !.pd[i].stage = "awaitFlush" ], k),
                          k, FALSE)
         st2 == FlushSession(st1, k, "sbpin")
     IN Commit(IF Len(st2.fl) > Len(st1.fl) THEN st2 ELSE PinAfterFlush(st2, k))

\* the pinStatusMessage call of handlePinCommand settles
HandlePinSettled(i, ok, d) ==
  /\ Suspended(i, "sbpin", "pinning")
  /\ IF ok THEN Internal ELSE Failure
  /\ LET st == [ State EXCEPT !.pd = RemoveAt(@, i) ]
     IN Commit(IF ~ok /\ d > 0 THEN NoteRateLimit(st, d) ELSE st)

\* handleUnpinCommand up to its first await
HandleUnpinCommand(k) ==
  /\ Command
  /\ IF statusMsg[k] # NoRef
       THEN Commit(IssueCall(Suspend(State, "sbunpin", k, "unpinning", TRUE)))
       ELSE Commit([ State EXCEPT !.pr.pinMode = FALSE ])

\* the unpinStatusMessage call settles: lines 943-949
HandleUnpinSettled(i, ok, d) ==
  /\ Suspended(i, "sbunpin", "unpinning")
  /\ IF ok THEN Internal ELSE Failure
  /\ LET st == [ State EXCEPT !.pd = RemoveAt(@, i), !.pr.pinMode = FALSE ]
     IN Commit(IF ~ok /\ d > 0 THEN NoteRateLimit(st, d) ELSE st)

\* handleButtonsCommand up to `await this.store.persist()`
HandleButtonsCommand(k) ==
  /\ Command
  /\ Commit(Suspend([ State EXCEPT !.pr.buttonsEnabled = ~@ ], "sbbuttons", k,
                    "persist", TRUE))

\* handleButtonsCommand resumed: lines 1006-1011
HandleButtonsResume(i) ==
  /\ Suspended(i, "sbbuttons", "persist")
  /\ Internal
  /\ LET k  == pending[i].key
         st == [ State EXCEPT !.pd = RemoveAt(@, i) ]
     IN Commit(IF st.ss[k].live
                 THEN MarkDirty(SetS(st, k, [ st.ss[k] EXCEPT
                                                !.lastRenderedControlsKey = << "" >> ]),
                                k, TRUE)
                 ELSE st)

\* ------------------------------------------------------------ specification

Next ==
  \/ \E k \in threads : MessageReceived(k)
  \/ \E i \in 1..Len(pending) : MessageReceivedResume(i)
  \/ \E k \in threads : BeforeAgentStart(k)
  \/ \E k \in threads, t \in ToolNames : BeforeToolCall(k, t)
  \/ \E k \in threads : AfterToolCall(k)
  \/ \E k \in threads : LlmOutput(k, "m1", 1)
  \/ \E k \in threads, ok \in BOOLEAN : AgentEnd(k, ok, IF ok THEN NoName ELSE "boom", 0)
  \/ \E i \in 1..Len(pending) : AgentEndResume(i)
  \/ \E k \in threads : RenderTimerFire(k)
  \/ \E k \in threads : HideTimerFire(k)
  \/ OnLiveTick
  \/ AdvanceTime
  \/ \E i \in 1..Len(flights) : EditOk(i)
  \/ \E i \in 1..Len(flights) : EditNotFound(i)
  \/ \E i \in 1..Len(flights), d \in 1..MaxRetryAfter : EditRateLimited(i, d)
  \/ \E i \in 1..Len(flights) : EditFailed(i)
  \/ \E i \in 1..Len(flights) : PersistClearedDone(i)
  \/ \E i \in 1..Len(flights) : SendOk(i)
  \/ \E i \in 1..Len(flights), d \in 0..MaxRetryAfter : SendFailed(i, d)
  \/ \E i \in 1..Len(flights) : PersistRefDone(i)
  \/ \E i \in 1..Len(flights), ok \in BOOLEAN, d \in 0..MaxRetryAfter : PinSettled(i, ok, d)
  \/ \E k \in threads : HandleEnableCommand(k)
  \/ \E i \in 1..Len(pending) : HandleEnableResume(i)
  \/ \E k \in threads : HandleDisableCommand(k)
  \/ \E k \in threads, m \in Modes \cup {NoName} : HandleModeCommand(k, m)
  \/ \E i \in 1..Len(pending) : HandleModeResume(i)
  \/ \E k \in threads : HandleStatusCommand(k)
  \/ \E k \in threads : HandleResetCommand(k)
  \/ \E i \in 1..Len(pending) : HandleResetResume(i)
  \/ \E k \in threads : HandlePinCommand(k)
  \/ \E i \in 1..Len(pending) : HandlePinResume(i)
  \/ \E i \in 1..Len(pending), ok \in BOOLEAN, d \in 0..MaxRetryAfter : HandlePinSettled(i, ok, d)
  \/ \E k \in threads : HandleUnpinCommand(k)
  \/ \E i \in 1..Len(pending), ok \in BOOLEAN, d \in 0..MaxRetryAfter : HandleUnpinSettled(i, ok, d)
  \/ \E k \in threads : HandleButtonsCommand(k)
  \/ \E i \in 1..Len(pending) : HandleButtonsResume(i)

\* one session (thread "main") over MaxTime
Spec == Init /\ [][Next]_vars

\* two sessions of the same chat over MaxTimeTwo
SpecTwo == InitTwo /\ [][Next]_vars

\* one session, with idle stretches as long as the staleness window
NextCleanup ==
  \/ Next
  \/ Sleep

SpecCleanup == Init /\ [][NextCleanup]_vars

\* A stretch longer than the staleness window in which the chat sees no event
\* and no command, while the Map holds a session that never ended a run
\* (endedAtMs is null).  The ticks in between mark nothing and remove nothing;
\* the clock stops with the tick due.
SleepIdle ==
  /\ now <= Horizon
  /\ flights = << >>
  /\ pending = << >>
  /\ \A k \in Keys :
       /\ sessions[k].renderTimer = NoTime
       /\ sessions[k].hideTimer = NoTime
       /\ ~(sessions[k].live /\ sessions[k].phase \in ACTIVE_PHASES /\ prefs.enabled)
  /\ EndedAt = {}
  /\ \E k \in Keys : sessions[k].live
  /\ now' = now + SESSION_STALE_MS + 1
  /\ nextTickAt' = now + SESSION_STALE_MS + 1
  /\ UNCHANGED << threads, autoHide, sessions, prefs, statusMsg, pausedUntil,
                  flights, pending, nextMsgId, hist, obs, nEvents, nCmds, nFails,
                  sessionTargets, senderTargets, lastPruneMs, call, progress, aux >>

\* one session with idle stretches, under a ticker that keeps firing: the
\* setInterval of startLiveTicker runs onLiveTick whenever it is due
NextIdle ==
  \/ NextCleanup
  \/ SleepIdle

SpecIdle == Init /\ [][NextIdle]_vars /\ WF_vars(OnLiveTick)

\* the lifecycle events with their session keys as the host delivers them,
\* over two threads; every delivery call succeeds
NextResolve ==
  \/ \E k \in threads, id \in Senders \cup {NoName}, c \in BOOLEAN : OnMessageReceived(k, id, c)
  \/ \E i \in 1..Len(pending) : MessageReceivedResume(i)
  \/ \E key \in SessionKeys : OnBeforeAgentStart(key)
  \/ \E key \in SessionKeys, t \in ToolNames : OnBeforeToolCall(key, t)
  \/ \E key \in SessionKeys : OnAfterToolCall(key)
  \/ \E key \in SessionKeys : OnLlmOutput(key, "m1", 1)
  \/ \E key \in SessionKeys, ok \in BOOLEAN :
       OnAgentEnd(key, ok, IF ok THEN NoName ELSE "boom", 0)
  \/ \E i \in 1..Len(pending) : AgentEndResume(i)
  \/ \E k \in threads : RenderTimerFire(k)
  \/ \E k \in threads : HideTimerFire(k)
  \/ OnLiveTick
  \/ AdvanceTime
  \/ \E i \in 1..Len(flights) : EditOk(i)
  \/ \E i \in 1..Len(flights) : SendOk(i)
  \/ \E i \in 1..Len(flights) : PersistRefDone(i)

SpecResolve == InitTwo /\ [][NextResolve]_vars

\* message_received and session-keyed lifecycle events of one chat, in any
\* order, through two accounts
NextAccounts ==
  \/ \E a \in AccountIds, k \in Keys : MessageReceivedVia(a, k)
  \/ \E key \in RoutedKeys : LifecycleEventFor(key)

SpecAccounts == Init /\ [][NextAccounts]_vars

\* before_agent_start of a disabled conversation: the handler resolves its
\* target and returns at line 584
LookupWhileDisabled(key) ==
  /\ ~prefs.enabled
  /\ OnBeforeAgentStart(key)

\* handleStatusCommand with a context that names no chat: the target comes
\* from resolveTargetFromSender (resolveTargetForCommand, line 319)
HandleStatusCommandFrom(senderId) ==
  /\ Command
  /\ LET r == ResolveTargetFromSender(State, senderId)
     IN IF r.target = NoTarget THEN Commit(r.st)
        ELSE Commit(GetOrCreateSession(r.st, RuntimeKey(r.target)))

\* A stretch with nothing scheduled or awaited and no run active, up to the
\* moment the next eviction scan is due: every tick in between marks nothing,
\* removes nothing and returns from maybePruneSessionTargets at line 206.
SleepUntilScan ==
  /\ now < MaxEvictTime
  /\ flights = << >>
  /\ pending = << >>
  /\ \A k \in Keys :
       /\ sessions[k].renderTimer = NoTime
       /\ sessions[k].hideTimer = NoTime
       /\ ~(sessions[k].live /\ sessions[k].phase \in ACTIVE_PHASES /\ prefs.enabled)
  /\ EndedAt = {}
  /\ lastPruneMs + PRUNE_INTERVAL_MS > now
  /\ now' = lastPruneMs + PRUNE_INTERVAL_MS
  /\ nextTickAt' = lastPruneMs + PRUNE_INTERVAL_MS
  /\ UNCHANGED << threads, autoHide, sessions, prefs, statusMsg, pausedUntil,
                  flights, pending, nextMsgId, hist, obs, nEvents, nCmds, nFails,
                  sessionTargets, senderTargets, lastPruneMs, call, progress, aux >>

\* the two caches over more than their time to live: messages (commands,
\* which are tracked and left to their handler), lookups by session key and
\* by sender, ticks and idle stretches
NextEvict ==
  \/ \E k \in threads, id \in Senders \cup {NoName} : OnMessageReceived(k, id, TRUE)
  \/ \E key \in SessionKeys : LookupWhileDisabled(key)
  \/ \E id \in Senders : HandleStatusCommandFrom(id)
  \/ OnLiveTick
  \/ AdvanceTime
  \/ SleepUntilScan

SpecEvict == Init /\ [][NextEvict]_vars

\* the lifecycle events over two threads, and the plugin torn down at any
\* moment
NextTeardown ==
  \/ NextResolve
  \/ Destroy

SpecTeardown == InitTwo /\ [][NextTeardown]_vars

\* one transport operation at a time, every attempt answered in every way
NextCall ==
  \/ \E hasSdk \in BOOLEAN : EditStatusMessage(hasSdk)
  \/ SendStatusMessage
  \/ \E a \in Answers : SdkAnswer(a)
  \/ \E a \in Answers : FetchAnswer(a)
  \/ RetrySleepDone
  \/ CallSettled

SpecCall == Init /\ [][NextCall]_vars

\* every fetch is answered (at the latest its AbortController times it out)
\* and every sleep ends
SpecCallFair ==
  /\ SpecCall
  /\ WF_vars(\E a \in Answers : SdkAnswer(a))
  /\ WF_vars(\E a \in Answers : FetchAnswer(a))
  /\ WF_vars(RetrySleepDone)

\* the render that asked for the progress has used it
ProgressRendered ==
  /\ progress.evaluated
  /\ progress' = NoProgress
  /\ UNCHANGED << runtime, call, aux >>

\* the run lengths (ms) and step counts agent_end is reported with
RunDurations == {500, 10000, 20000, 30000}
RunSteps     == {0, 2, 4, 6}

\* agent_end with success = true for a run of the given length and step
\* count, as far as the history is concerned: onAgentEnd lines 713-733
CompleteRun(elapsedMs, currentRunSteps) ==
  /\ prefs.historyRuns < MaxRuns
  /\ prefs' = RecordRun(prefs, elapsedMs, currentRunSteps)
  /\ obs' = [ obs EXCEPT !.runs = Append(@, << elapsedMs, currentRunSteps >>) ]
  /\ UNCHANGED << threads, now, nextTickAt, autoHide, sessions, statusMsg, pausedUntil,
                  flights, pending, nextMsgId, hist, nEvents, nCmds, nFails,
                  sessionTargets, senderTargets, lastPruneMs, call, progress, aux >>

NextHistory == \E d \in RunDurations, c \in RunSteps : CompleteRun(d, c)

SpecHistory == Init /\ [][NextHistory]_vars

NextProgress ==
  \/ EvalResolveProgress
  \/ ProgressRendered

SpecProgress == Init /\ [][NextProgress]_vars

\* the circuit breaker on its own: pauses recorded and looked up for several
\* (accountId, chatId) pairs as time passes
NextLimiter ==
  \/ \E a \in LimiterAccounts, c \in LimiterChats, d \in PauseSeconds :
       LimiterOnRateLimit(a, c, d)
  \/ \E a \in LimiterAccounts, c \in LimiterChats : LimiterCanProceed(a, c)
  \/ LimiterClock

SpecLimiter == Init /\ [][NextLimiter]_vars

\* the throttle on its own: a configuration is loaded and flushes succeed in
\* the several phases
NextThrottle ==
  \/ \E t \in RawThrottles, m \in RawThrottles : LoadConfig(t, m)
  \/ \E ph \in Phases : FlushThrottle(ph)

SpecThrottle == Init /\ [][NextThrottle]_vars

NextRender ==
  \/ RenderSnapshot
  \/ ProgressRendered

SpecRender == Init /\ [][NextRender]_vars

\* persist() called from several triggers; the file system answers every
\* write, and a callback that can run does
NextStore ==
  \/ \E t \in Triggers : Persist(t)
  \/ \E i \in 1..MaxPersists : WriteStart(i)
  \/ \E i \in 1..MaxPersists, ok \in BOOLEAN : WriteSettles(i, ok)

SpecStore ==
  /\ Init
  /\ [][NextStore]_vars
  /\ WF_vars(\E i \in 1..MaxPersists : WriteStart(i))
  /\ WF_vars(\E i \in 1..MaxPersists, ok \in BOOLEAN : WriteSettles(i, ok))

\* ==================================================================
\* Properties
\* ==================================================================

FlightsOf(k) == { i \in 1..Len(flights) : flights[i].key = k }

\* C1: in every reachable state of every session,
\* renderedRevision <= desiredRevision.
C1_RenderedAtMostDesired ==
  \A k \in Keys : sessions[k].renderedRevision <= sessions[k].desiredRevision

\* C1 witness: a session marked at least twice whose flush went through the
\* success path and caught up with desiredRevision.
C1_Witness ==
  \E k \in Keys :
    /\ sessions[k].live
    /\ sessions[k].desiredRevision >= 2
    /\ sessions[k].renderedRevision = sessions[k].desiredRevision
    /\ sessions[k].lastRenderedText # NoText
    /\ sessions[k].lastRenderedAtMs > 0

\* C2 as stated: no step lowers desiredRevision or renderedRevision of a
\* session.
C2_BothNonDecreasing ==
  [][ \A k \in Keys :
        (sessions[k].live /\ sessions'[k].live) =>
          /\ sessions'[k].desiredRevision >= sessions[k].desiredRevision
          /\ sessions'[k].renderedRevision >= sessions[k].renderedRevision ]_vars

\* C2 amended: desiredRevision is never lowered; renderedRevision is never
\* lowered except that onMessageReceived, resuming after persist to start a
\* new run with a new message (newMessagePerRun on, pinMode off, no active
\* run), sets it to 0.
C2_NonDecreasingExceptNewRun ==
  [][ \A k \in Keys :
        (sessions[k].live /\ sessions'[k].live) =>
          /\ sessions'[k].desiredRevision >= sessions[k].desiredRevision
          /\ \/ sessions'[k].renderedRevision >= sessions[k].renderedRevision
             \/ /\ sessions'[k].renderedRevision = 0
                /\ \E i \in 1..Len(pending) :
                     pending[i].key = k /\ MessageReceivedResume(i) ]_vars

\* C2 witness: a session that had a render delivered and completed, and
\* whose renderedRevision is 0 again after the new-run reset.
C2_Witness ==
  \E k \in Keys :
    /\ sessions[k].live
    /\ hist[k].delivered # NoText
    /\ FlightsOf(k) = {}
    /\ sessions[k].renderedRevision = 0
    /\ sessions[k].lastRenderedText = NoText
    /\ sessions[k].desiredRevision >= 2

\* C3: at most one flushSession invocation per session is between setting
\* isFlushing and clearing it, whoever started it (render timer or a command
\* calling flushSession directly); isFlushing is set exactly while there is one.
C3_SingleFlight ==
  \A k \in Keys :
    /\ Cardinality(FlightsOf(k)) <= 1
    /\ sessions[k].isFlushing <=> FlightsOf(k) # {}

\* C3 witness: a flush started directly by a command is awaiting the network
\* while the same session's render timer is due (a second invocation of
\* flushSession for it is about to run), and at the same time a flush of
\* another session is awaiting the network too.
C3_Witness ==
  \E k \in Keys :
    /\ \E i \in FlightsOf(k) : flights[i].owner \in {"cmd", "sbpin"}
    /\ sessions[k].isFlushing
    /\ sessions[k].renderTimer # NoTime
    /\ sessions[k].renderTimer <= now
    /\ \E j \in Keys \ {k} : FlightsOf(j) # {} /\ sessions[j].isFlushing

\* nothing is scheduled or suspended for session k: no render timer, no hide
\* timer, no flush awaiting, no handler of its thread awaiting
Quiescent(k) ==
  /\ sessions[k].renderTimer = NoTime
  /\ sessions[k].hideTimer = NoTime
  /\ ~sessions[k].isFlushing
  /\ FlightsOf(k) = {}
  /\ \A i \in 1..Len(pending) : pending[i].key # k

\* C4: once events have stopped and nothing is left to run for an enabled
\* session in phase done or error, with every call having succeeded (so the
\* breaker never blocked), the last delivered text is the render of the
\* session's final state.
C4_ConvergesToFinalState ==
  \A k \in Keys :
    ( /\ sessions[k].live
      /\ prefs.enabled
      /\ nFails = 0
      /\ sessions[k].phase \in {"done", "error"}
      /\ Quiescent(k) )
    => /\ hist[k].delivered # NoText
       /\ hist[k].delivered[1] = RenderStatusText(sessions[k], prefs)

C6_NoCallForUnchangedRender ==
  [][ Len(flights') > Len(flights) =>
        LET f == flights'[Len(flights')] IN
          ~ ( /\ << f.text, f.ckey >> = hist[f.key].delivered
              /\ sessions[f.key].renderedRevision # 0 ) ]_vars

\* C7: absent an urgent mark in between, two flushes of a session that reach
\* the delivery channel start at least the throttle apart (the smallest
\* max(phase throttle, minThrottleMs) is used as the required distance).
C7_ThrottleRespected ==
  \A k \in Keys : hist[k].gapOk

\* the effect of markDirty(session, true) on session k in a step
UrgentlyMarked(k) ==
  /\ sessions'[k].desiredRevision = sessions[k].desiredRevision + 1
  /\ sessions'[k].nextAllowedAtMs = 0
  /\ sessions'[k].isFlushing \/ sessions'[k].renderTimer = now

\* the effect of markDirty(session) on session k in a step
PlainlyMarked(k) ==
  /\ sessions'[k].desiredRevision = sessions[k].desiredRevision + 1
  /\ sessions'[k].nextAllowedAtMs = sessions[k].nextAllowedAtMs
  /\ sessions'[k].isFlushing \/ sessions'[k].renderTimer # NoTime

C9_NoCallWhileRateLimited ==
  obs.gateOk

\* C10: at most one delivery call (edit, send, pin, unpin) is outstanding for
\* a session's target.
C10_OneOutstandingCall ==
  \A k \in Keys : Outstanding(flights, pending, k) <= 1

\* every attempt of the transport operation under way was answered a
FailedIdentically(a) ==
  /\ \A i \in 1..Len(call.sdk) : call.sdk[i] = a
  /\ \A i \in 1..Len(call.fetches) : call.fetches[i] = a

\* C11: with maxRetriesEdit = 0 and maxRetriesSend = 4, an edit operation
\* whose error surfaces after failing with a transient error (5xx or network)
\* has made exactly one attempt, and a send operation whose error surfaces
\* after failing identically on every attempt has made 1 + maxRetriesSend
\* attempts through callTelegram.
C11_RetryAsymmetry ==
  \A a \in {"server", "network"} :
    ( call.status = "thrown" /\ FailedIdentically(a) ) =>
      /\ call.op = "edit" => Len(call.sdk) + Len(call.fetches) = 1
      /\ call.op = "send" => Len(call.fetches) = 1 + MaxRetriesSend

\* C11 witness: a send whose SDK call and every fetch of callTelegram were
\* answered 5xx has surfaced its error after the last retry.
C11_Witness ==
  /\ call.op = "send"
  /\ call.status = "thrown"
  /\ FailedIdentically("server")
  /\ call.attempt = MaxRetriesSend
  /\ Len(call.fetches) = 1 + MaxRetriesSend

\* C12: resolveProgress returns percent 100 and etaMs 0 in phase done or
\* error whatever the progress mode; in predictive mode with an active phase
\* the percent is an integer in [1, 99]; in strict mode with an active phase
\* percent and etaMs are both null.
C12_ProgressBounds ==
  progress.evaluated =>
    LET x == progress.in
        o == progress.out
    IN /\ x.phase \in {"done", "error"} => o.percent = 100 /\ o.etaMs = 0
       /\ ( x.phase \in ACTIVE_PHASES /\ x.prefs.progressMode = "predictive" )
            => o.percent \in PROGRESS_MIN_PERCENT..PROGRESS_MAX_PERCENT
       /\ ( x.phase \in ACTIVE_PHASES /\ x.prefs.progressMode = "strict" )
            => o.percent = Null /\ o.etaMs = Null

\* C12 witness: a predictive evaluation on an active session whose ratio
\* rounds to 100 percent and is clamped to 99.
C12_Witness ==
  /\ progress.evaluated
  /\ progress.in.phase \in ACTIVE_PHASES
  /\ progress.in.prefs.progressMode = "predictive"
  /\ Round(FracMul(PercentRatio(progress.in.currentRunSteps, progress.in.elapsedMs,
                                progress.in.prefs), Frac(100, 1))) = 100
  /\ progress.out.percent = PROGRESS_MAX_PERCENT

\* history q is history p with one more run of length d and c steps folded in
Folded(p, q, d, c) ==
  LET n == p.historyRuns IN
    /\ q.historyRuns = n + 1
    /\ q.avgDurationMs = IF n = 0 THEN d
                         ELSE (2 * (p.avgDurationMs * n + d) + (n + 1)) \div (2 * (n + 1))
    /\ IF n = 0 THEN q.avgSteps = << c, 1 >>
       ELSE q.avgSteps[1] * p.avgSteps[2] * (n + 1)
              = (p.avgSteps[1] * n + c * p.avgSteps[2]) * q.avgSteps[2]

\* the runs of the example: 10000, 20000, 30000 ms with 2, 4, 6 tool steps
ExampleRuns == << << 10000, 2 >>, << 20000, 4 >>, << 30000, 6 >> >>

\* C13 as stated: each successful agent_end increases historyRuns by 1 and
\* folds the run's duration and the run's step count into the averages, the
\* first run setting the averages to that run's values.
C13_FoldsRunValues ==
  [][ \A d \in RunDurations, c \in RunSteps :
        CompleteRun(d, c) => Folded(prefs, prefs', d, c) ]_vars

\* C13 amended: each successful agent_end increases historyRuns by 1 and
\* folds max(1000, duration) and max(1, steps) into the averages (rounded for
\* the duration), the first run setting the averages to these values; after
\* runs of 10000, 20000, 30000 ms with 2, 4, 6 steps avgDurationMs = 20000 and
\* avgSteps = 4.
C13_FoldsClampedRunValues ==
  /\ [][ \A d \in RunDurations, c \in RunSteps :
           CompleteRun(d, c) => Folded(prefs, prefs', Max(1000, d), Max(1, c)) ]_vars
  /\ [] ( obs.runs = ExampleRuns =>
             prefs.avgDurationMs = 20000 /\ prefs.avgSteps = << 4, 1 >> )

\* C13 witness: the three runs of the example have been folded in.
C13_Witness ==
  /\ obs.runs = ExampleRuns
  /\ prefs.historyRuns = 3
  /\ prefs.avgDurationMs = 20000

\* the step is (a part of) the message_received handler for thread k
MessageReceivedStep(k) ==
  \/ MessageReceived(k)
  \/ \E i \in 1..Len(pending) : pending[i].key = k /\ MessageReceivedResume(i)

\* C14: a message_received step on a session that is in queued, running or
\* tool when the step is taken (chat enabled) only increments queuedCount by
\* 1: phase, currentRunSteps, toolName, startedAtMs and the usage stay as
\* they are; the phase is set to queued and the run fields are reset only on
\* a session that is not active.
C14_QueuedEntryRule ==
  [][ \A k \in Keys :
        ( /\ MessageReceivedStep(k)
          /\ prefs.enabled
          /\ sessions[k].live
          /\ sessions[k].phase \in ACTIVE_PHASES )
        => /\ sessions'[k].queuedCount = sessions[k].queuedCount + 1
           /\ sessions'[k].phase = sessions[k].phase
           /\ sessions'[k].currentRunSteps = sessions[k].currentRunSteps
           /\ sessions'[k].toolName = sessions[k].toolName
           /\ sessions'[k].startedAtMs = sessions[k].startedAtMs
           /\ sessions'[k].usageInput = sessions[k].usageInput
           /\ sessions'[k].usageOutput = sessions[k].usageOutput ]_vars

\* the edges of the stated phase machine
PhaseEdges ==
  { << "idle", "queued" >>, << "done", "queued" >>, << "error", "queued" >>,
    << "queued", "running" >>, << "running", "tool" >>, << "tool", "running" >>,
    << "running", "done" >>, << "running", "error" >>,
    << "tool", "done" >>, << "tool", "error" >>,
    << "done", "idle" >>, << "error", "idle" >> }

\* the step is (a part of) a lifecycle event handler or the auto-hide
\* callback for thread k
LifecycleStep(k) ==
  \/ MessageReceivedStep(k)
  \/ BeforeAgentStart(k)
  \/ \E t \in ToolNames : BeforeToolCall(k, t)
  \/ AfterToolCall(k)
  \/ LlmOutput(k, "m1", 1)
  \/ \E ok \in BOOLEAN : AgentEnd(k, ok, IF ok THEN NoName ELSE "boom", 0)
  \/ \E i \in 1..Len(pending) : pending[i].key = k /\ AgentEndResume(i)
  \/ HideTimerFire(k)

\* C15: under any sequence of lifecycle events the phase of a session
\* changes only along the edges of the stated machine; in particular a
\* before_tool_call or after_tool_call after agent_end does not move a
\* done/error session to tool or running.
C15_PhaseEdgesOnly ==
  [][ \A k \in Keys :
        ( /\ LifecycleStep(k)
          /\ sessions[k].live
          /\ sessions'[k].phase # sessions[k].phase )
        => << sessions[k].phase, sessions'[k].phase >> \in PhaseEdges ]_vars

\* flight i is recreating a vanished message: it started as an edit and is
\* past the "not found" answer
Recreating(i) ==
  /\ flights[i].currentRef # NoRef
  /\ flights[i].stage \in {"persistNF", "send", "persistRef", "pin"}

\* the step in which the flush of flight i completes on its success path
FlushCompletes(i) ==
  \/ EditOk(i)
  \/ PersistRefDone(i) /\ ~flights[i].pin
  \/ \E ok \in BOOLEAN, d \in 0..MaxRetryAfter : PinSettled(i, ok, d)

\* C16: when an edit is answered "message to edit not found" the stored
\* reference of the target is cleared and, after the persist, a fresh message
\* is sent; when the send succeeds the store holds the reference of the new
\* message (a new id, not the vanished one), and when the flush completes the
\* session's render cache is the sent text and controls key; no edit is ever
\* issued for a message id that was answered "not found".
C16_RecreatesVanishedMessage ==
  /\ [][ \A i \in 1..Len(flights) :
           LET f == flights[i] IN
             /\ EditNotFound(i) =>
                  statusMsg'[f.key] = NoRef /\ flights'[i].stage = "persistNF"
             /\ ( PersistClearedDone(i) /\ Recreating(i) ) => flights'[i].stage = "send"
             /\ ( SendOk(i) /\ Recreating(i) ) =>
                  /\ statusMsg'[f.key] = nextMsgId
                  /\ statusMsg'[f.key] # f.currentRef
                  /\ statusMsg'[f.key] \notin hist[f.key].vanished
             /\ ( FlushCompletes(i) /\ Recreating(i) ) =>
                  /\ sessions'[f.key].lastRenderedText = f.text
                  /\ sessions'[f.key].lastRenderedControlsKey = f.ckey ]_vars
  /\ [] ( \A i \in 1..Len(flights) :
             flights[i].stage = "edit" =>
               flights[i].currentRef \notin hist[flights[i].key].vanished )
  /\ [] ( \A k \in Keys : statusMsg[k] = NoRef \/ statusMsg[k] \notin hist[k].vanished )

\* C16 witness: a message vanished, the flush that noticed it has sent a new
\* one and completed: the store holds the new reference and the render cache
\* is what the channel accepted last.
C16_Witness ==
  \E k \in Keys :
    /\ hist[k].vanished # {}
    /\ FlightsOf(k) = {}
    /\ statusMsg[k] # NoRef
    /\ statusMsg[k] \notin hist[k].vanished
    /\ sessions[k].lastRenderedText # NoText
    /\ hist[k].delivered = << sessions[k].lastRenderedText, sessions[k].lastRenderedControlsKey >>
    /\ sessions[k].renderedRevision = sessions[k].desiredRevision

\* C17: when /sbreset is handled (its persist done) for an enabled chat while
\* no flush of the session is in flight (the reference the command cleared is
\* still cleared) and the breaker is not blocking, a send of a new status
\* message is issued, whatever the session rendered before the command.
C17_ResetSendsNewMessage ==
  [][ \A i \in 1..Len(pending) :
        LET k == pending[i].key IN
          ( /\ HandleResetResume(i)
            /\ pending[i].flag
            /\ prefs.enabled
            /\ FlightsOf(k) = {}
            /\ ~sessions[k].isFlushing
            /\ statusMsg[k] = NoRef
            /\ CanProceed(pausedUntil) )
          => \E j \in 1..Len(flights') :
               /\ flights'[j].key = k
               /\ flights'[j].stage = "send"
               /\ flights'[j].owner = "cmd" ]_vars

\* C18: with newMessagePerRun on and pinMode off, the first delivery call
\* issued after a message_received that starts a new run (from a non-active
\* phase) is a send and not an edit of a message that exists already, even if
\* a flush of the previous run was awaiting its call when message_received
\* arrived; with pinMode on, message_received leaves the stored message
\* reference as it is.
C18_NewMessagePerRun ==
  /\ [] ( \A k \in Keys : hist[k].perRunOk )
  /\ [][ \A k \in Keys :
           ( MessageReceivedStep(k) /\ prefs.pinMode ) => statusMsg' = statusMsg ]_vars

\* C19: the periodic cleanup removes a session only if its phase is not
\* queued, running or tool and it ended at least the staleness window
\* (2 hours) ago, and the removed session has neither its flush timer nor
\* its auto-hide timer set any more.
C19_CleanupRetention ==
  [][ \A k \in Keys :
        (sessions[k].live /\ ~sessions'[k].live) =>
          /\ sessions[k].phase \notin ACTIVE_PHASES
          /\ sessions[k].endedAtMs # NoTime
          /\ now - sessions[k].endedAtMs >= SESSION_STALE_MS
          /\ sessions'[k].renderTimer = NoTime
          /\ sessions'[k].hideTimer = NoTime ]_vars

\* C19 witness: cleanup has removed a session that had a timer set, and
\* the session is gone with no timer left.
C19_Witness ==
  \E k \in Keys :
    /\ hist[k].removed
    /\ hist[k].cancelled
    /\ ~sessions[k].live
    /\ sessions[k].renderTimer = NoTime
    /\ sessions[k].hideTimer = NoTime

\* the session key resolves to no target in the current state
Unresolved(key) == ResolveTargetForSession(State, key).target = NoTarget

\* a step of one of the five handlers that resolve their target from the
\* session key
SessionEventStep(key) ==
  \/ OnBeforeAgentStart(key)
  \/ \E t \in ToolNames : OnBeforeToolCall(key, t)
  \/ OnAfterToolCall(key)
  \/ OnLlmOutput(key, "m1", 1)
  \/ \E ok \in BOOLEAN : OnAgentEnd(key, ok, IF ok THEN NoName ELSE "boom", 0)

\* C20: when before_agent_start, before_tool_call, after_tool_call,
\* llm_output or agent_end carries a session key that resolves to no target,
\* the handler returns with no session created or modified (so no revision
\* changed and no flush timer set), no call issued, no handler left
\* suspended, the store untouched and both resolution caches as they were.
C20_ResolutionFailureNoEffect ==
  [][ \A key \in SessionKeys :
        (Unresolved(key) /\ SessionEventStep(key)) =>
          UNCHANGED << sessions, prefs, statusMsg, pausedUntil, flights, pending,
                       nextMsgId, sessionTargets, senderTargets, lastPruneMs >> ]_vars

\* C20 witness: an event was dropped for want of a target while a session
\* was in the Map and a key was tracked, and the tracked key and the session
\* are still there.
C20_Witness ==
  /\ obs.warnedBusy
  /\ \E k \in Keys : sessions[k].live /\ sessions[k].desiredRevision > 0
  /\ \E key \in SessionKeys : sessionTargets[key] # NoEntry

\* the calls of persist() whose file write is under way
WritesInFlight ==
  { i \in 1..Len(persistQueue.calls) : persistQueue.calls[i].status = "writing" }

\* C21: at most one file write is in flight at any time; the writes start in
\* the order persist() was called; a failed write is logged and the promise
\* of its persist() is fulfilled, never rejected; and every persist() call,
\* also one queued behind a write that fails, gets its write and settles.
C21_WritesSerialized ==
  /\ [] ( /\ Cardinality(WritesInFlight) <= 1
          /\ \A j \in 1..Len(persistQueue.started) : persistQueue.started[j] = j
          /\ \A i \in 1..Len(persistQueue.calls) :
               /\ persistQueue.calls[i].promise # "rejected"
               /\ persistQueue.calls[i].status = "failed" =>
                    persistQueue.calls[i].promise = "fulfilled"
          /\ persistQueue.logged =
               Cardinality({ i \in 1..Len(persistQueue.calls) :
                               persistQueue.calls[i].status = "failed" }) )
  /\ \A i \in 1..MaxPersists :
       [] ( Len(persistQueue.calls) >= i =>
              <> ( /\ Len(persistQueue.calls) >= i
                   /\ persistQueue.calls[i].promise = "fulfilled"
                   /\ persistQueue.calls[i].status \in { "written", "failed" } ) )

\* C21 witness: four calls from different triggers in quick succession: the
\* first write failed, the second was written after it, the third is in
\* flight and the fourth waits.
C21_Witness ==
  /\ Len(persistQueue.calls) = 4
  /\ persistQueue.calls[1].status = "failed"
  /\ persistQueue.calls[2].status = "written"
  /\ persistQueue.calls[3].status = "writing"
  /\ persistQueue.calls[4].status = "queued"
  /\ persistQueue.calls[1].trigger # persistQueue.calls[2].trigger
  /\ persistQueue.logged = 1

\* a timer callback of the runtime runs in this step
TimerCallbackStep ==
  \/ OnLiveTick
  \/ \E k \in Keys : RenderTimerFire(k) \/ HideTimerFire(k)

\* C22: once destroy() has returned, the ticker and every session's flush
\* timer and auto-hide timer are cancelled (none is pending), and no timer
\* callback runs, also when a flush or an agent_end handler was suspended at
\* an await when destroy() was called.
C22_TeardownCancelsTimers ==
  /\ [] ( obs.destroyed =>
            /\ nextTickAt = NoTime
            /\ \A k \in Keys : sessions[k].renderTimer = NoTime /\ sessions[k].hideTimer = NoTime )
  /\ [][ obs.destroyed => ~TimerCallbackStep ]_vars

\* C23: rendering leaves every field of the session unchanged (the
\* preferences are only read), and rendering the snapshot a second time
\* gives the same text.
C23_RenderNoSideEffects ==
  progress.evaluated =>
    /\ progress.after = progress.in.eta
    /\ LET again == RenderProgressPart([ progress.in EXCEPT !.eta = progress.after ],
                                       progress.mode)
       IN << again.percent, again.etaShown >> = progress.text

\* C24: in predictive mode, for a session in running or tool phase, every
\* ETA resolveProgress returns is at least 1000 ms and is shown as at least
\* one second.
C24_EtaAtLeastFloor ==
  ( /\ progress.evaluated
    /\ progress.in.phase \in {"running", "tool"}
    /\ progress.in.prefs.progressMode = "predictive"
    /\ progress.out.etaMs # Null ) =>
      /\ progress.out.etaMs >= ETA_ACTIVE_FLOOR_MS
      /\ FormatCompactSeconds(progress.out.etaMs) >= 1

\* the flush of session k is in flight and completes in this step
FlightCompletes(k) ==
  /\ sessions[k].live /\ sessions[k].isFlushing
  /\ sessions'[k].live /\ ~sessions'[k].isFlushing
  /\ FlightsOf(k) # {}

\* markDirty has been called on session k since its flight rendered the text
MarkedInFlight(k) ==
  \E i \in FlightsOf(k) : flights[i].rev < sessions[k].desiredRevision

\* C25: when a flush completes for a session that was marked dirty while the
\* flush was in flight, desiredRevision is above renderedRevision and a
\* follow-up flush is scheduled.
C25_MarkInFlightFollowUp ==
  [][ \A k \in Keys :
        FlightCompletes(k) /\ MarkedInFlight(k) =>
          /\ sessions'[k].desiredRevision > sessions'[k].renderedRevision
          /\ sessions'[k].renderTimer # NoTime ]_vars

\* the flush timer of session k fires in this step and flushSession returns
\* at the circuit breaker (the session is dirty, the statusbar is enabled)
BreakerAborts(k) ==
  /\ RenderTimerFire(k)
  /\ ~sessions[k].isFlushing
  /\ prefs.enabled
  /\ sessions[k].desiredRevision > sessions[k].renderedRevision
  /\ ~CanProceed(pausedUntil)

\* C26: a flush aborted because the circuit breaker is blocking is retried
\* after the pause in every phase: when it returns, the session has a flush
\* timer pending, or is in a phase the live tick marks, or a handler of the
\* session is still to resume; otherwise nothing delivers its state unless
\* another event arrives.
C26_BlockedFlushRetried ==
  [][ \A k \in Keys :
        BreakerAborts(k) =>
          \/ sessions'[k].renderTimer # NoTime
          \/ sessions'[k].phase \in ACTIVE_PHASES
          \/ \E i \in 1..Len(pending') : pending'[i].key = k ]_vars

\* a handler that calls markDirty(session, true) on session k runs in this step
UrgentMarkStep(k) ==
  /\ prefs.enabled
  /\ \/ BeforeAgentStart(k)
     \/ \E t \in ToolNames : BeforeToolCall(k, t)
     \/ AfterToolCall(k)
     \/ \E ok \in BOOLEAN : AgentEnd(k, ok, IF ok THEN NoName ELSE "boom", 0)

\* C27: after markDirty(session, true) on a session with no flush in flight,
\* desiredRevision has grown by 1 and the one flush timer of the session is
\* due at once (delay 0), whatever timer was pending before and whatever
\* nextAllowedAtMs was; the timer that was pending is gone, so the flush-timer
\* callback runs for the new timer only.
C27_UrgentMarkMechanics ==
  [][ \A k \in Keys :
        UrgentMarkStep(k) /\ ~sessions[k].isFlushing =>
          /\ sessions'[k].desiredRevision =
               (IF sessions[k].live THEN sessions[k].desiredRevision ELSE 0) + 1
          /\ sessions'[k].nextAllowedAtMs = 0
          /\ sessions'[k].renderTimer = now
          /\ ~sessions'[k].isFlushing ]_vars

\* C27 witness: a session marked twice since its last render, inside its
\* throttle window: the first mark armed a timer for the end of the window,
\* the urgent one replaced it by a timer due at once.
C27_Witness ==
  \E k \in Keys :
    /\ sessions[k].live /\ ~sessions[k].isFlushing
    /\ sessions[k].renderedRevision > 0
    /\ sessions[k].desiredRevision >= sessions[k].renderedRevision + 2
    /\ now < sessions[k].lastRenderedAtMs + MinGapMs
    /\ sessions[k].phase \in {"running", "tool"}
    /\ sessions[k].nextAllowedAtMs = 0
    /\ sessions[k].renderTimer = now

\* C28: a 429 answer to an operation of any type (edit, send, pin, unpin)
\* records a pause in the circuit breaker: while the retry delay of the
\* answer is running, canProceed returns false for the chat.
C28_RateLimitRecordsPause ==
  now < obs.rlUntil => ~CanProceed(pausedUntil)

\* C29: onRateLimit for a key keeps the later of the existing paused-until
\* time and now + max(retry_after, 1 s), so a pause is never shortened and
\* lasts at least one second; canProceed for a key returns false exactly
\* while now < paused-until, and the first call at or after that time returns
\* true and removes the entry; a call for one (accountId, chatId) leaves the
\* entries of all other pairs as they were.
C29_PauseOnlyExtended ==
  [][ limiter'.n = limiter.n + 1 =>
        LET c      == limiter'.last
            key    == LimiterKey(c.accountId, c.chatId)
            before == limiter.pausedUntil[key]
            after  == limiter'.pausedUntil[key]
            until  == now + (IF c.retryAfterSec >= 1 THEN c.retryAfterSec ELSE 1)
        IN /\ c.op = "onRateLimit" =>
                /\ after = (IF before >= until THEN before ELSE until)
                /\ after >= before
                /\ after >= now + 1
           /\ c.op = "canProceed" =>
                /\ c.result = ~(now < before)
                /\ c.result => after = 0
                /\ ~c.result => after = before
           /\ \A a \in LimiterAccounts, ch \in LimiterChats :
                << a, ch >> # << c.accountId, c.chatId >> =>
                  limiter'.pausedUntil[LimiterKey(a, ch)] =
                    limiter.pausedUntil[LimiterKey(a, ch)] ]_vars

\* C29 witness: after time has passed and four calls, a pair whose pause
\* outlasts the shorter one just asked for, while another pair of the same
\* account has no pause.
C29_Witness ==
  /\ limiter.last.op = "onRateLimit"
  /\ LET key == LimiterKey(limiter.last.accountId, limiter.last.chatId) IN
       /\ limiter.pausedUntil[key] > now + Max(limiter.last.retryAfterSec, 1)
       /\ \E ch \in LimiterChats :
            /\ ch # limiter.last.chatId
            /\ limiter.pausedUntil[LimiterKey(limiter.last.accountId, ch)] = 0
  /\ limiter.n = MaxLimiterCalls
  /\ now >= 1

\* the answers callTelegram tries again after
Retried == { "rateLimit", "server", "network" }

\* C30: an operation with maxRetries = N makes at most N + 1 attempts through
\* callTelegram; every attempt but the last was answered 429, 5xx or with a
\* network error, so a "message not modified" answer, any other 4xx and a
\* success end the loop at once; a further attempt starts only out of a wait
\* of at least 250 ms; and whatever the answers are, the operation returns
\* or throws.
C30_RetryLoopTerminates ==
  /\ [] ( /\ Len(call.fetches) <= call.maxRetries + 1
          /\ \A i \in 1..(Len(call.fetches) - 1) : call.fetches[i] \in Retried
          /\ ( Len(call.fetches) > 0 /\ call.fetches[Len(call.fetches)] \notin Retried )
               => call.status \in { "returned", "thrown" }
          /\ call.status = "sleep" => call.sleepMs >= 250 )
  /\ [][ ( call'.status = "fetch" /\ Len(call'.fetches) > 0 )
           => ( call.status = "sleep" /\ call.sleepMs >= 250
                /\ Len(call'.fetches) = Len(call.fetches) ) ]_vars
  /\ ( call.status \in { "sdk", "fetch", "sleep" } ~> call.status \in { "returned", "thrown" } )

\* C30 witness: a send that was answered 429 with retry_after 0 and then a
\* 5xx, waited before each further attempt, and ended on a 400 at its third
\* attempt with retries left.
C30_Witness ==
  /\ call.op = "send"
  /\ call.status = "thrown"
  /\ call.fetches = << "rateLimit", "server", "badRequest" >>
  /\ call.attempt = 2
  /\ call.attempt < call.maxRetries

\* the edit or the send of flight i fails in this step with an error that
\* is neither "not found" on an edit nor a rate limit: a permanent error, or
\* a transient one after the retries
DeliveryFails(i) ==
  \/ EditFailed(i)
  \/ SendFailed(i, 0)

\* C31: after a flush's edit or send has failed with a permanent error or
\* with a transient one after its retries, the flush arranges no further
\* attempt on its own: no flush timer is armed by the failing flush, and a
\* new delivery call waits for a later markDirty or tick.
C31_NoRetryAfterFailedDelivery ==
  [][ \A i \in 1..Len(flights) :
        DeliveryFails(i) => sessions'[flights[i].key].renderTimer = NoTime ]_vars

History(p) == << p.historyRuns, p.avgDurationMs, p.avgSteps >>

\* C33: agent_end with success = false leaves historyRuns, avgDurationMs and
\* avgSteps as they were, and a step that changes any of them is an agent_end
\* with success = true: no other lifecycle event, no command, no timer and no
\* flush modifies them.
C33_HistoryOnlyOnSuccess ==
  [][ /\ ( \E k \in Keys : AgentEnd(k, FALSE, "boom", 0) ) => History(prefs') = History(prefs)
      /\ History(prefs') # History(prefs) => \E k \in Keys : AgentEnd(k, TRUE, NoName, 0) ]_vars

\* C33 witness: a run completed and was folded into the history, the next
\* agent_end reported a failure, and the history is still that of one run.
C33_Witness ==
  \E k \in Keys :
    /\ sessions[k].live /\ sessions[k].phase = "error"
    /\ prefs.historyRuns = 1
    /\ Len(obs.runs) = 1
    /\ nEvents = 2

\* C34: under every accepted configuration the throttle applied after a flush
\* is ordered tool <= running <= queued, the queued one is twice throttleMs,
\* and none is below minThrottleMs.
C34_PhaseThrottleOrdering ==
  LET a == throttle.applied
      c == throttle.config
  IN ( throttle.loaded /\ a["tool"] > 0 /\ a["running"] > 0 /\ a["queued"] > 0 ) =>
       /\ c.throttleMs \in 250..10000 /\ c.minThrottleMs \in 250..10000
       /\ a["tool"] <= a["running"]
       /\ a["running"] <= a["queued"]
       /\ a["queued"] = 2 * c.throttleMs
       /\ \A ph \in { "tool", "running", "queued" } : a[ph] >= c.minThrottleMs

\* a session that only a command created and that has seen nothing for
\* longer than the staleness window: the one input of the behaviour so far is
\* the command that put it into the Map at startedAtMs
IdleSinceCreation(k) ==
  /\ sessions[k].live
  /\ sessions[k].phase \notin ACTIVE_PHASES
  /\ nEvents = 0 /\ nCmds = 1
  /\ now - sessions[k].startedAtMs > SESSION_STALE_MS

C36_AutoHideSparesLaterRun ==
  [][ \A k \in Keys :
        ( HideTimerFire(k) /\ sessions[k].live ) =>
          /\ sessions[k].phase \in { "done", "error" } => sessions'[k].phase = "idle"
          /\ sessions[k].phase \in ACTIVE_PHASES =>
                /\ sessions'[k].phase = sessions[k].phase
                /\ sessions'[k].currentRunSteps = sessions[k].currentRunSteps ]_vars

\* a lifecycle event whose key is not in the cache and parses to a target of
\* a chat and thread that some tracked entry has
FreshAligned(key) ==
  /\ key # << >>
  /\ routing.tg[key] = NoEntry
  /\ ResolveTelegramTargetFromSessionKey(key) # NoTarget
  /\ \E e \in SessionKeys :
       /\ routing.tg[e] # NoEntry
       /\ routing.tg[e].target.chatId = ResolveTelegramTargetFromSessionKey(key).chatId
       /\ routing.tg[e].target.threadId = ResolveTelegramTargetFromSessionKey(key).threadId

\* C37: when resolveTargetForSession misses the cache, derives a target from
\* the key, and a tracked entry has the same (chatId, threadId), the target
\* returned has the chat and thread parsed from the key and the accountId and
\* conversationId of such a tracked entry; it is written to the cache under
\* the key, and the next lookup of the key returns it.
C37_FreshResolutionAligned ==
  [][ \A key \in SessionKeys :
        ( FreshAligned(key) /\ LifecycleEventFor(key) ) =>
          LET fromKey == ResolveTelegramTargetFromSessionKey(key)
              target  == routing'.last.target
          IN /\ target.chatId = fromKey.chatId
             /\ target.threadId = fromKey.threadId
             /\ \E e \in SessionKeys :
                  /\ routing.tg[e] # NoEntry
                  /\ routing.tg[e].target.chatId = fromKey.chatId
                  /\ routing.tg[e].target.threadId = fromKey.threadId
                  /\ target.accountId = routing.tg[e].target.accountId
                  /\ target.conversationId = routing.tg[e].target.conversationId
             /\ routing'.tg[key].target = target
             /\ ResolveTargetForSession(routing', key).target = target ]_vars

\* C37 witness: the last event was a lifecycle event whose key parses to
\* another account than the one of the target it was given, and the cache
\* holds that target under the key.
C37_Witness ==
  /\ routing.last.op = "lifecycle"
  /\ routing.last.target # NoTarget
  /\ ResolveTelegramTargetFromSessionKey(routing.last.key) # NoTarget
  /\ ResolveTelegramTargetFromSessionKey(routing.last.key).accountId = "default"
  /\ routing.last.target.accountId = "work"
  /\ routing.tg[routing.last.key].target = routing.last.target
  /\ routing.n = 2

\* C38: whatever the order of the message_received events (all through one
\* account) and the session-keyed lifecycle events of one conversation, and
\* whatever account the session keys name, the Map never holds two sessions
\* of the same chat and thread.
C38_OneSessionPerChat ==
  Cardinality(routing.via) <= 1 =>
    \A x, y \in routing.sessions :
      ( x[2] = y[2] /\ x[3] = y[3] ) => x = y

\* a lifecycle event of the session is received (its handler starts)
EventReceived(k) ==
  \/ MessageReceived(k)
  \/ BeforeAgentStart(k)
  \/ \E t \in ToolNames : BeforeToolCall(k, t)
  \/ AfterToolCall(k)
  \/ LlmOutput(k, "m1", 1)
  \/ \E ok \in BOOLEAN : AgentEnd(k, ok, IF ok THEN NoName ELSE "boom", 0)

\* the session fields a flush writes
FlushFields(s) ==
  << s.desiredRevision, s.renderedRevision, s.lastRenderedText, s.lastRenderedControlsKey,
     s.lastRenderedAtMs, s.nextAllowedAtMs, s.isFlushing >>

\* C39: while the conversation has enabled = false, a flush that starts
\* makes no delivery call and leaves the revisions, the render cache,
\* nextAllowedAtMs and isFlushing as they are, and a lifecycle event that is
\* received leaves the phase and the revisions of the session as they are.
C39_DisabledIsSilent ==
  [][ \A k \in Keys :
        ~prefs.enabled =>
          /\ RenderTimerFire(k) =>
                /\ flights' = flights
                /\ statusMsg' = statusMsg
                /\ FlushFields(sessions'[k]) = FlushFields(sessions[k])
          /\ EventReceived(k) =>
                /\ flights' = flights
                /\ sessions'[k].phase = sessions[k].phase
                /\ sessions'[k].desiredRevision = sessions[k].desiredRevision
                /\ sessions'[k].renderedRevision = sessions[k].renderedRevision ]_vars

\* C39 witness: no call has ever failed, the conversation is disabled, and a
\* session in the Map has a revision to deliver with no timer set, no flush
\* running and no call in flight: its flush timer fired after /sboff and
\* the flush returned at once.
C39_Witness ==
  \E k \in Keys :
    /\ ~prefs.enabled
    /\ nFails = 0 /\ obs.rlUntil = 0
    /\ sessions[k].live
    /\ sessions[k].desiredRevision > sessions[k].renderedRevision
    /\ sessions[k].renderTimer = NoTime
    /\ ~sessions[k].isFlushing
    /\ flights = << >> /\ pending = << >>
    /\ nEvents >= 1 /\ nCmds >= 1

\* the entries of the two caches
CacheEntries(tg, sn) ==
  { tg[key] : key \in { j \in SessionKeys : tg[j] # NoEntry } }
    \cup { sn[id] : id \in { j \in Senders : sn[j] # NoEntry } }

\* an eviction scan runs in the step
Scans == lastPruneMs' # lastPruneMs

\* C40: a step that is not a tick removes no entry of either cache; a scan
\* runs only in a tick and at least PRUNE_INTERVAL_MS after the scan before
\* it; right after a scan at time t no entry of either cache has a seenAtMs
\* older than t - SESSION_TARGET_TTL_MS, and every entry seen within the TTL
\* (tracked, or refreshed by a lookup that found it) is still there.
C40_DebouncedTtlEviction ==
  [][ /\ ~Scans =>
           /\ \A key \in SessionKeys :
                sessionTargets[key] # NoEntry => sessionTargets'[key] # NoEntry
           /\ \A id \in Senders :
                senderTargets[id] # NoEntry => senderTargets'[id] # NoEntry
      /\ Scans =>
           /\ OnLiveTick
           /\ lastPruneMs' = now
           /\ now - lastPruneMs >= PRUNE_INTERVAL_MS
           /\ \A e \in CacheEntries(sessionTargets', senderTargets') :
                e.seenAtMs >= now - SESSION_TARGET_TTL_MS
           /\ \A key \in SessionKeys :
                ( sessionTargets[key] # NoEntry
                  /\ now - sessionTargets[key].seenAtMs <= SESSION_TARGET_TTL_MS ) =>
                  sessionTargets'[key] = sessionTargets[key]
           /\ \A id \in Senders :
                ( senderTargets[id] # NoEntry
                  /\ now - senderTargets[id].seenAtMs <= SESSION_TARGET_TTL_MS ) =>
                  senderTargets'[id] = senderTargets[id] ]_vars

\* C40 witness: a scan has just run more than the TTL after the start; the
\* alias of the agent, which only a message tracks (together with the
\* message's route key), was found by a later lookup and is in the cache,
\* within the TTL, while the route key tracked with it is gone.
C40_Witness ==
  /\ lastPruneMs = now
  /\ now > SESSION_TARGET_TTL_MS
  /\ nEvents = 2
  /\ sessionTargets[<< "agent", "main", "main" >>] # NoEntry
  /\ sessionTargets[<< "agent", "main", "main" >>].seenAtMs >= PRUNE_INTERVAL_MS
  /\ \A k \in Keys : sessionTargets[RouteKey(k)] = NoEntry

====
